---- MODULE Spec2Model ----
(***************************************************************************)
(* Tensor-shape algebra of the hierarchical Vision Transformer layers of   *)
(* hedrergudene/HViT_classification: patch extraction and its inverse,     *)
(* un-flattening, patch encoders, resampling constructors and the HViT     *)
(* forward pass, in the TensorFlow and PyTorch versions.                   *)
(*                                                                         *)
(* A tensor is a record [err, shape, data]: shape is the list of its       *)
(* dimensions and data its entries in row-major order. A call that raises  *)
(* is the record Err(kind), kind "assert" for a failed assert statement    *)
(* and "runtime" for an exception raised by the framework.                 *)
(***************************************************************************)
EXTENDS Integers, Sequences, FiniteSets, TLC

\* ------------------------------------------------------------- bounds
MaxB == 2
MaxSide == 4
MaxC == 2
MaxProj == 9
MaxHeads == 2
MaxLayers == 1
MaxDepth == 2
MaxHidden == 2
MaxTorchPatch == 16

Batches == 1..MaxB
Sides == 1..MaxSide
Channels == 1..MaxC
PatchSizes == 1..MaxSide

Heads == 1..MaxHeads
Layers == 0..MaxLayers

\* Python's None, for an optional integer argument
None == -1

ProjDims == {None} \cup 1..MaxProj

\* mode strings handed to the constructors: the ones they list and one they do not
Modes == {"max", "standard", "conv", "attn", "resnet", "concat", "avg"}

\* ------------------------------------------------------ tensor primitives
RECURSIVE Prod(_)
Prod(s) == IF s = <<>> THEN 1 ELSE Head(s) * Prod(Tail(s))

RECURSIVE Ravel(_, _)
Ravel(idx, s) ==
    IF s = <<>> THEN 0
    ELSE Head(idx) * Prod(Tail(s)) + Ravel(Tail(idx), Tail(s))

RECURSIVE Unravel(_, _)
Unravel(i, s) ==
    IF s = <<>> THEN <<>>
    ELSE LET p == Prod(Tail(s)) IN <<i \div p>> \o Unravel(i % p, Tail(s))

Err(kind) == [err |-> kind, shape |-> <<>>, data |-> <<>>]

Unset == Err("unset")

Ok(t) == t.err = "none"

Tensor(shape, f(_)) ==
    [err |-> "none", shape |-> shape,
     data |-> [i \in 1..Prod(shape) |-> f(Unravel(i - 1, shape))]]

At(t, idx) == t.data[Ravel(idx, t.shape) + 1]

Rank(t) == Len(t.shape)

\* int(np.sqrt(n)): the integer part of the square root
Isqrt(n) == CHOOSE k \in 0..n : k * k <= n /\ (k + 1) * (k + 1) > n

IsSquare(n) == Isqrt(n) * Isqrt(n) = n

\* position (1-based) of a possibly negative axis in a list of length r
Axis(a, r) == IF a < 0 THEN r + a + 1 ELSE a + 1

Without(s, p) == [k \in 1..(Len(s) - 1) |-> IF k < p THEN s[k] ELSE s[k + 1]]

Insert(s, p, v) ==
    [k \in 1..(Len(s) + 1) |-> IF k < p THEN s[k] ELSE IF k = p THEN v ELSE s[k - 1]]

\* tf.reshape / torch.reshape: row-major, one dimension may be -1
reshape(t, shape) ==
    LET holes == {k \in 1..Len(shape) : shape[k] = -1}
        known == Prod([k \in 1..Len(shape) |-> IF shape[k] = -1 THEN 1 ELSE shape[k]])
        total == Prod(t.shape)
    IN  IF ~Ok(t) THEN t
        ELSE IF holes = {}
             THEN IF known = total THEN [t EXCEPT !.shape = shape] ELSE Err("runtime")
        ELSE IF Cardinality(holes) > 1 \/ known = 0 \/ total % known # 0
             THEN Err("runtime")
        ELSE [t EXCEPT !.shape =
                 [k \in 1..Len(shape) |-> IF shape[k] = -1 THEN total \div known ELSE shape[k]]]

\* tf.transpose / torch.permute: output axis k is input axis perm[k]
transpose(t, perm) ==
    IF ~Ok(t) THEN t
    ELSE IF Len(perm) # Rank(t) THEN Err("runtime")
    ELSE Tensor([k \in 1..Rank(t) |-> t.shape[perm[k] + 1]],
                LAMBDA idx : At(t, [a \in 1..Rank(t) |->
                                      idx[CHOOSE k \in 1..Rank(t) : perm[k] + 1 = a]]))

\* tf.squeeze / torch.squeeze of one axis
squeeze(t, axis) ==
    IF ~Ok(t) THEN t
    ELSE IF axis >= Rank(t) \/ t.shape[axis + 1] # 1 THEN Err("runtime")
    ELSE [t EXCEPT !.shape = Without(t.shape, axis + 1)]

\* tf.expand_dims(t, axis): a new axis of length 1
expand_dims(t, axis) ==
    IF ~Ok(t) THEN t
    ELSE IF axis > Rank(t) THEN Err("runtime")
    ELSE [t EXCEPT !.shape = Insert(t.shape, axis + 1, 1)]

\* tf.unstack(t, axis): the list of the slices of t along axis
unstack(t, axis) ==
    IF ~Ok(t) THEN <<t>>
    ELSE LET p == Axis(axis, Rank(t))
         IN  [j \in 1..t.shape[p] |->
                 Tensor(Without(t.shape, p), LAMBDA idx : At(t, Insert(idx, p, j - 1)))]

\* the first failed tensor of a list: the exception that travels up
FirstErr(ts) == ts[CHOOSE j \in 1..Len(ts) : ~Ok(ts[j]) /\ \A i \in 1..(j - 1) : Ok(ts[i])]

\* whether tf.split(t, n, axis) can cut the axis into n equal slabs
CanSplit(t, n, axis) ==
    /\ n > 0
    /\ Axis(axis, Rank(t)) \in 1..Rank(t)
    /\ t.shape[Axis(axis, Rank(t))] % n = 0

\* tf.split(t, n, axis): the n equal slabs of t along axis
split(t, n, axis) ==
    IF ~Ok(t) THEN <<t>>
    ELSE IF ~CanSplit(t, n, axis) THEN <<Err("runtime")>>
    ELSE LET p == Axis(axis, Rank(t))
             w == t.shape[p] \div n
         IN  [j \in 1..n |->
                 Tensor([t.shape EXCEPT ![p] = w],
                        LAMBDA idx : At(t, [idx EXCEPT ![p] = (j - 1) * w + idx[p]]))]

\* tf.stack(ts, axis) / torch.stack: a new axis of length Len(ts)
stack(ts, axis) ==
    IF ts = <<>> THEN Err("runtime")
    ELSE IF \E j \in 1..Len(ts) : ~Ok(ts[j]) THEN FirstErr(ts)
    ELSE IF \E j \in 1..Len(ts) : ts[j].shape # ts[1].shape THEN Err("runtime")
    ELSE LET p == Axis(axis, Rank(ts[1]) + 1)
         IN  IF p \notin 1..(Rank(ts[1]) + 1) THEN Err("runtime")
             ELSE Tensor(Insert(ts[1].shape, p, Len(ts)),
                         LAMBDA idx : At(ts[idx[p] + 1], Without(idx, p)))

RECURSIVE SumTo(_, _, _)
SumTo(ts, p, j) == IF j = 0 THEN 0 ELSE ts[j].shape[p] + SumTo(ts, p, j - 1)

\* tf.concat(ts, axis) / torch.cat: the tensors laid one after the other along axis
concat(ts, axis) ==
    IF ts = <<>> THEN Err("runtime")
    ELSE IF \E j \in 1..Len(ts) : ~Ok(ts[j]) THEN FirstErr(ts)
    ELSE LET r == Rank(ts[1])
             p == Axis(axis, r)
         IN  IF p \notin 1..r THEN Err("runtime")
             ELSE IF \E j \in 1..Len(ts) :
                        \/ Rank(ts[j]) # r
                        \/ Without(ts[j].shape, p) # Without(ts[1].shape, p)
                  THEN Err("runtime")
             ELSE Tensor([ts[1].shape EXCEPT ![p] = SumTo(ts, p, Len(ts))],
                         LAMBDA idx :
                            LET j == CHOOSE j \in 1..Len(ts) :
                                        /\ SumTo(ts, p, j - 1) <= idx[p]
                                        /\ idx[p] < SumTo(ts, p, j)
                            IN  At(ts[j], [idx EXCEPT ![p] = idx[p] - SumTo(ts, p, j - 1)]))

\* tf.map_fn(fn, elems): fn over the slices of elems along axis 0, stacked again
map_fn(fn(_), elems) ==
    IF ~Ok(elems) THEN elems
    ELSE stack([j \in 1..elems.shape[1] |-> fn(unstack(elems, 0)[j])], 0)

\* ------------------------------------------------------ framework layers
\* the output of a layer with trained weights: its shape is what the layer's
\* definition fixes, its entries depend on the weights and are left at 0
Learned(shape) == [err |-> "none", shape |-> shape, data |-> [i \in 1..Prod(shape) |-> 0]]

\* tf.keras.layers.Dense(units) / torch.nn.Linear: acts on the last axis
Dense(units, t) ==
    IF ~Ok(t) THEN t
    ELSE IF Rank(t) < 2 THEN Err("runtime")
    ELSE Learned([t.shape EXCEPT ![Rank(t)] = units])

\* tf.keras.layers.Embedding(input_dim, output_dim) on tf.range(0, limit)
Embedding(input_dim, output_dim, limit) ==
    IF limit > input_dim THEN Err("runtime")
    ELSE Learned(<<limit, output_dim>>)

\* the shape two shapes broadcast to (aligned at their last axes), <<-1>> when they do not
Broadcast(sa, sb) ==
    LET r == IF Len(sa) > Len(sb) THEN Len(sa) ELSE Len(sb)
        da(k) == IF k > r - Len(sa) THEN sa[k - (r - Len(sa))] ELSE 1
        db(k) == IF k > r - Len(sb) THEN sb[k - (r - Len(sb))] ELSE 1
    IN  IF \E k \in 1..r : da(k) # db(k) /\ da(k) # 1 /\ db(k) # 1 THEN <<-1>>
        ELSE [k \in 1..r |-> IF da(k) = 1 THEN db(k) ELSE da(k)]

\* the result of an element-wise operation whose operands broadcast to shape s
Elementwise(s) == IF s = <<-1>> THEN Err("runtime") ELSE Learned(s)

\* a + b of two tensors
Add(a, b) ==
    IF ~Ok(a) THEN a
    ELSE IF ~Ok(b) THEN b
    ELSE Elementwise(Broadcast(a.shape, b.shape))

\* a layer that keeps the shape of its input: Dropout, LayerNormalization,
\* BatchNormalization, softmax, gelu, LeakyReLU, multiplication by a scalar
SameShape(t) == IF ~Ok(t) THEN t ELSE Learned(t.shape)

\* the place of a layer that a constructor does not build
NoLayer == [class |-> "none", err |-> "none"]

\* one layer of a feed-forward block applied to x: tf.keras.layers.Dense(units),
\* torch.nn.Linear(in_features, out_features), which takes a last axis of in_features
\* only, or a layer that keeps the shape (gelu, GELU, Dropout)
Layer(l, x) ==
    IF ~Ok(x) THEN x
    ELSE IF l.op = "Dense" THEN Dense(l.units, x)
    ELSE IF l.op = "Linear"
    THEN IF Rank(x) < 1 \/ x.shape[Rank(x)] # l.in_features THEN Err("runtime")
         ELSE Learned([x.shape EXCEPT ![Rank(x)] = l.out_features])
    ELSE SameShape(x)

\* torch.nn.Sequential / the statements of a call, in order: each layer takes the
\* result of the one before
RECURSIVE Sequential(_, _)
Sequential(layers, x) ==
    IF layers = <<>> THEN x ELSE Sequential(Tail(layers), Layer(Head(layers), x))

Ceil(a, b) == (a + b - 1) \div b

\* tf.keras.layers.Conv2D(filters, kernel, strides, padding = 'same') on (n, h, w, c)
Conv2D(filters, strides, t) ==
    IF ~Ok(t) THEN t
    ELSE IF Rank(t) # 4 \/ strides < 1 THEN Err("runtime")
    ELSE Learned(<<t.shape[1], Ceil(t.shape[2], strides), Ceil(t.shape[3], strides), filters>>)

\* tf.keras.layers.MaxPool2D(pool_size, strides, padding = 'same') on (n, h, w, c):
\* the channels are left as they are
MaxPool2D(strides, t) ==
    IF ~Ok(t) THEN t
    ELSE IF Rank(t) # 4 \/ strides < 1 THEN Err("runtime")
    ELSE Learned(<<t.shape[1], Ceil(t.shape[2], strides), Ceil(t.shape[3], strides), t.shape[4]>>)

\* tf.keras.layers.Conv2DTranspose(filters, kernel, strides, padding = 'same')
Conv2DTranspose(filters, strides, t) ==
    IF ~Ok(t) THEN t
    ELSE IF Rank(t) # 4 THEN Err("runtime")
    ELSE Learned(<<t.shape[1], t.shape[2] * strides, t.shape[3] * strides, filters>>)

\* tf.linalg.matmul(a, b, transpose_b): the last two axes multiply, the others broadcast
MatMul(a, b, transpose_b) ==
    IF ~Ok(a) THEN a
    ELSE IF ~Ok(b) THEN b
    ELSE IF Rank(a) < 2 \/ Rank(b) < 2 THEN Err("runtime")
    ELSE LET ra == Rank(a)
             rb == Rank(b)
             inner == IF transpose_b THEN b.shape[rb] ELSE b.shape[rb - 1]
             cols == IF transpose_b THEN b.shape[rb - 1] ELSE b.shape[rb]
             lead == Broadcast(SubSeq(a.shape, 1, ra - 2), SubSeq(b.shape, 1, rb - 2))
         IN  IF a.shape[ra] # inner \/ lead = <<-1>> THEN Err("runtime")
             ELSE Learned(lead \o <<a.shape[ra - 1], cols>>)

\* tf.keras.layers.MultiHeadAttention(num_heads, key_dim)(query, value): the shape of query
MultiHeadAttention(query, value) ==
    IF ~Ok(query) THEN query
    ELSE IF ~Ok(value) THEN value
    ELSE IF Rank(query) < 3 \/ Rank(value) < 3 \/ query.shape[1] # value.shape[1] THEN Err("runtime")
    ELSE Learned(query.shape)

\* tf.keras.layers.Flatten: all axes after the batch axis merged
Flatten(t) ==
    IF ~Ok(t) THEN t
    ELSE IF Rank(t) < 2 THEN reshape(t, <<t.shape[1], 1>>)
    ELSE Learned(<<t.shape[1], Prod(Tail(t.shape))>>)

\* a constructor that raised: `failed` names the statement, `layers` the sub-layers
\* created before it
Raised(class, kind, failed, layers) ==
    [class |-> class, err |-> kind, failed |-> failed, layers |-> layers]

\* ---------------------------------------------- model/tf/functions.py
\* patches_2d: the (h, w) plane Z of one channel cut into its patch_size blocks;
\* X_middle is the stack of the h // patch_size row slabs, X_final the map over them
tf_patches_2d(Z, patch_size) ==
    reshape(map_fn(LAMBDA y : stack(split(y, Z.shape[2] \div patch_size, 1), 0),
                   stack(split(Z, Z.shape[1] \div patch_size, 0), 0)),
            <<-1, patch_size, patch_size>>)

\* patches without its second assertion (the one on the width):
\* C4_AssertIffNotMultiple does not survive the change
tf_patches_HeightOnly(Xin, patch_size) ==
    LET X1 == IF Rank(Xin) = 5 THEN squeeze(Xin, 1) ELSE Xin
    IN  IF ~Ok(X1) THEN X1
        ELSE IF Rank(X1) # 4 THEN Err("runtime")
        ELSE IF X1.shape[2] % patch_size # 0 THEN Err("assert")
        ELSE transpose(map_fn(LAMBDA y : map_fn(LAMBDA z : tf_patches_2d(z, patch_size), y),
                              transpose(X1, <<0, 3, 1, 2>>)),
                       <<0, 2, 3, 4, 1>>)

tf_patches(Xin, patch_size) ==
    LET X1 == IF Rank(Xin) = 5 THEN squeeze(Xin, 1) ELSE Xin
    IN  IF ~Ok(X1) THEN X1
        ELSE IF Rank(X1) # 4 THEN Err("runtime")
        ELSE IF X1.shape[2] % patch_size # 0 THEN Err("assert")
        ELSE IF X1.shape[3] % patch_size # 0 THEN Err("assert")
        ELSE transpose(map_fn(LAMBDA y : map_fn(LAMBDA z : tf_patches_2d(z, patch_size), y),
                              transpose(X1, <<0, 3, 1, 2>>)),
                       <<0, 2, 3, 4, 1>>)

tf_unflatten(flattened, num_channels) ==
    IF ~Ok(flattened) THEN flattened
    ELSE IF Rank(flattened) \notin {2, 3} THEN Err("runtime")
    ELSE LET n == flattened.shape[Rank(flattened) - 1]
             p == flattened.shape[Rank(flattened)]
             s == Isqrt(p \div num_channels)
         IN  reshape(flattened, <<-1, n, s, s, num_channels>>)

\* unpatch after its first statement: num_patches, h, w and ch are read off `sized`,
\* which is x, or unflatten(x, num_channels) when x has fewer than 5 axes
tf_unpatch_sized(x, sized, num_channels) ==
    IF ~Ok(sized) THEN sized
    ELSE IF Rank(sized) # 5 THEN Err("runtime")
    ELSE LET num_patches == sized.shape[2]
             h == sized.shape[3]
             w == sized.shape[4]
             ch == sized.shape[5]
             elem_per_axis == Isqrt(num_patches)
         IN  IF ch # num_channels THEN Err("assert")
             ELSE reshape(concat(unstack(concat(unstack(stack(split(x, elem_per_axis, 1), 1),
                                                        2), -2),
                                         1), -3),
                          <<-1, 1, h * elem_per_axis, w * elem_per_axis, ch>>)

tf_unpatch(x, num_channels) ==
    IF ~Ok(x) THEN x
    ELSE tf_unpatch_sized(x, IF Rank(x) < 5 THEN tf_unflatten(x, num_channels) ELSE x,
                           num_channels)

\* FeedForward.__init__
tf_FeedForward_init(projection_dim, hidden_dim) ==
    [class |-> "FeedForward", err |-> "none",
     D1 |-> [op |-> "Dense", units |-> hidden_dim],
     Drop1 |-> [op |-> "Dropout"],
     D2 |-> [op |-> "Dense", units |-> projection_dim],
     Drop2 |-> [op |-> "Dropout"]]

\* FeedForward.call, the layers its statements apply, in order
tf_FeedForward_layers(self) ==
    <<self.D1, [op |-> "gelu"], self.Drop1, self.D2, [op |-> "gelu"], self.Drop2>>

\* FeedForward.call
tf_FeedForward_call(self, x) == Sequential(tf_FeedForward_layers(self), x)

\* PatchEncoder.__init__
tf_PatchEncoder_init(img_size, patch_size, num_channels) ==
    LET num_patches == (img_size \div patch_size) * (img_size \div patch_size)
        projection_dim == num_channels * patch_size * patch_size
    IN  [class |-> "PatchEncoder", err |-> "none",
         img_size |-> img_size, patch_size |-> patch_size, num_channels |-> num_channels,
         num_patches |-> num_patches, projection_dim |-> projection_dim,
         projection |-> [units |-> projection_dim],
         position_embedding |-> [input_dim |-> num_patches, output_dim |-> projection_dim]]

\* PatchEncoder.call
tf_PatchEncoder_call(self, Xin) ==
    Add(Dense(self.projection.units, tf_patches(Xin, self.patch_size)),
        Embedding(self.position_embedding.input_dim, self.position_embedding.output_dim,
                  self.num_patches))

\* resampling cutting the restored image into patches of patch_size[0] again:
\* C30_ResamplingInvertible does not survive the change
tf_resampling_FirstSize(encoded_patches, img_size, patch_size, num_channels) ==
    reshape(tf_patches(squeeze(tf_unpatch(tf_unflatten(encoded_patches, num_channels),
                                          num_channels), 1),
                       patch_size[1]),
            <<-1, (img_size \div patch_size[1]) * (img_size \div patch_size[1]),
              num_channels * patch_size[1] * patch_size[1]>>)

\* resampling: the image is restored, cut into patches of patch_size[1] and flattened
tf_resampling(encoded_patches, img_size, patch_size, num_channels) ==
    reshape(tf_patches(squeeze(tf_unpatch(tf_unflatten(encoded_patches, num_channels),
                                          num_channels), 1),
                       patch_size[2]),
            <<-1, (img_size \div patch_size[2]) * (img_size \div patch_size[2]),
              num_channels * patch_size[2] * patch_size[2]>>)

\* Resampling.__init__
tf_Resampling_init(img_size, patch_size, num_channels, trainable) ==
    [class |-> "Resampling", err |-> "none",
     img_size |-> img_size, patch_size |-> patch_size,
     num_patches |-> [i \in 1..2 |-> (img_size \div patch_size[i]) * (img_size \div patch_size[i])],
     num_channels |-> num_channels,
     projection_dim |-> [i \in 1..2 |-> num_channels * patch_size[i] * patch_size[i]],
     trainable |-> trainable,
     rs |-> [transposed |-> ~(patch_size[1] > patch_size[2]),
             filters |-> (img_size \div patch_size[2]) * (img_size \div patch_size[2]),
             strides |-> 2]]

\* Resampling.rs: Conv2D when patch_size[0] > patch_size[1], Conv2DTranspose otherwise
tf_Resampling_rs(self, y) ==
    IF self.rs.transposed
    THEN Conv2DTranspose(self.rs.filters, self.rs.strides, y)
    ELSE Conv2D(self.rs.filters, self.rs.strides, y)

\* Resampling.call. Trainable: unflatten, transpose, rs mapped over the batch, BN,
\* drop, LeakyReLU, transpose, reshape
tf_Resampling_call(self, encoded) ==
    IF self.trainable
    THEN reshape(
             transpose(
                 SameShape(SameShape(SameShape(
                     map_fn(LAMBDA y : tf_Resampling_rs(self, y),
                            transpose(tf_unflatten(encoded, self.num_channels),
                                      <<0, 4, 2, 3, 1>>))))),
                 <<0, 4, 2, 3, 1>>),
             <<-1, self.num_patches[2], self.projection_dim[2]>>)
    ELSE tf_resampling(encoded, self.img_size, self.patch_size, self.num_channels)

\* DeepPatchEncoder.__init__, for a list patch_size of any length; seqCNN[i] is the
\* i-th resampling convolution (followed by a BatchNormalization)
tf_DeepPatchEncoder_init(img_size, patch_size, num_channels) ==
    LET L == Len(patch_size)
        num_patches == [i \in 1..L |-> (img_size \div patch_size[i]) * (img_size \div patch_size[i])]
        kernel_size == [i \in 1..L |-> IF patch_size[i] > 2 THEN patch_size[i] \div 4 ELSE 2]
        patch_size_extended == <<img_size>> \o patch_size
        down == patch_size[1] > patch_size[L]
        strides_size == [i \in 1..L |->
                            IF down THEN patch_size_extended[i] \div patch_size_extended[i + 1]
                            ELSE patch_size_extended[i + 1] \div patch_size_extended[i]]
    IN  IF \E i \in 2..L : kernel_size[i] < 1 \/ strides_size[i] < 1
        THEN Raised("DeepPatchEncoder", "runtime", "seqCNN", {"dense", "position_embedding"})
        ELSE [class |-> "DeepPatchEncoder", err |-> "none",
              img_size |-> img_size, patch_size |-> patch_size, num_channels |-> num_channels,
              num_patches |-> num_patches,
              projection_dim |-> [i \in 1..L |-> num_channels * patch_size[i] * patch_size[i]],
              kernel_size |-> kernel_size, strides_size |-> strides_size,
              dense |-> [units |-> num_channels * patch_size[1] * patch_size[1]],
              position_embedding |-> [input_dim |-> num_patches[1],
                                      output_dim |-> num_channels * patch_size[1] * patch_size[1]],
              seqCNN |-> [i \in 1..(L - 1) |->
                             [transposed |-> ~down, filters |-> num_patches[i + 1],
                              kernel_size |-> kernel_size[i + 1], strides |-> strides_size[i + 1]]]]

\* DeepPatchEncoder.seqCNN[i - 1]: the convolution and its BatchNormalization
tf_DeepPatchEncoder_resample(self, i, y) ==
    SameShape(IF self.seqCNN[i].transposed
              THEN Conv2DTranspose(self.seqCNN[i].filters, self.seqCNN[i].strides, y)
              ELSE Conv2D(self.seqCNN[i].filters, self.seqCNN[i].strides, y))

\* DeepPatchEncoder.call: `positions` after i iterations of the loop (i = 0: after
\* expand_dims, unflatten and transpose)
RECURSIVE tf_DeepPatchEncoder_positions(_, _)
tf_DeepPatchEncoder_positions(self, i) ==
    IF i = 0
    THEN transpose(tf_unflatten(expand_dims(Embedding(self.position_embedding.input_dim,
                                                      self.position_embedding.output_dim,
                                                      self.num_patches[1]), 0),
                                self.num_channels),
                   <<0, 4, 2, 3, 1>>)
    ELSE map_fn(LAMBDA y : tf_DeepPatchEncoder_resample(self, i, y),
                tf_DeepPatchEncoder_positions(self, i - 1))

\* DeepPatchEncoder.call, iteration i of the loop on `encoded`: transpose, reshape,
\* resampling, unflatten, transpose, and the sum with `positions`
tf_DeepPatchEncoder_iteration(self, i, encoded) ==
    Add(transpose(tf_unflatten(
            tf_resampling(reshape(transpose(encoded, <<0, 4, 2, 3, 1>>),
                                  <<-1, self.num_patches[i], self.projection_dim[i]>>),
                          self.img_size, <<self.patch_size[i], self.patch_size[i + 1]>>,
                          self.num_channels),
            self.num_channels), <<0, 4, 2, 3, 1>>),
        tf_DeepPatchEncoder_positions(self, i))

\* DeepPatchEncoder.call: `encoded` after i iterations of the loop (i = 0: the flat
\* patches plus their position embedding, un-flattened and transposed); an iteration
\* starts from the value the one before it left
RECURSIVE tf_DeepPatchEncoder_encoded(_, _, _)
tf_DeepPatchEncoder_encoded(self, i, Xin) ==
    IF i = 0
    THEN transpose(tf_unflatten(Add(reshape(tf_patches(Xin, self.patch_size[1]),
                                            <<-1, self.num_patches[1], self.projection_dim[1]>>),
                                    Embedding(self.position_embedding.input_dim,
                                              self.position_embedding.output_dim,
                                              self.num_patches[1])),
                                self.num_channels),
                   <<0, 4, 2, 3, 1>>)
    ELSE CHOOSE next \in {tf_DeepPatchEncoder_iteration(self, i, encoded) :
                              encoded \in {tf_DeepPatchEncoder_encoded(self, i - 1, Xin)}} : TRUE

\* DeepPatchEncoder.call
tf_DeepPatchEncoder_call(self, Xin) ==
    tf_resampling(reshape(transpose(tf_DeepPatchEncoder_encoded(self, Len(self.seqCNN), Xin),
                                    <<0, 4, 2, 3, 1>>),
                          <<-1, self.num_patches[Len(self.patch_size)],
                            self.projection_dim[Len(self.patch_size)]>>),
                  self.img_size,
                  <<self.patch_size[Len(self.patch_size)], self.patch_size[1]>>,
                  self.num_channels)

\* ---------------------------------------------- model/tf/ViT_model.py
vit_patch(Xin, patch_size) == tf_patches(Xin, patch_size)

vit_unflatten(flattened, num_channels) ==
    IF ~Ok(flattened) THEN flattened
    ELSE IF Rank(flattened) # 3 THEN Err("runtime")
    ELSE LET n == flattened.shape[2]
             p == flattened.shape[3]
             s == Isqrt(p \div num_channels)
         IN  reshape(flattened, <<-1, n, s, s, num_channels>>)

\* unpatch after its first statement: num_patches, h, w and ch are read off `sized`,
\* which is x, or unflatten(x, num_channels) when x has fewer than 5 axes
vit_unpatch_sized(x, sized, num_channels) ==
    IF ~Ok(sized) THEN sized
    ELSE IF Rank(sized) # 5 THEN Err("runtime")
    ELSE LET num_patches == sized.shape[2]
             h == sized.shape[3]
             w == sized.shape[4]
             ch == sized.shape[5]
             elem_per_axis == Isqrt(num_patches)
         IN  IF ch # num_channels THEN Err("assert")
             ELSE reshape(concat(unstack(concat(unstack(stack(split(x, elem_per_axis, 1), 1),
                                                        2), -2),
                                         1), -3),
                          <<-1, 1, h * elem_per_axis, w * elem_per_axis, ch>>)

vit_unpatch(x, num_channels) ==
    IF ~Ok(x) THEN x
    ELSE vit_unpatch_sized(x, IF Rank(x) < 5 THEN vit_unflatten(x, num_channels) ELSE x,
                           num_channels)

\* tf.image.extract_patches(sizes = strides = patch_size, padding = 'VALID'):
\* entry (b, r, q, (i * patch_size + j) * C + c) is images[b, r * ps + i, q * ps + j, c];
\* rows and columns that do not fill a whole patch are dropped
extract_patches(images, patch_size) ==
    IF ~Ok(images) THEN images
    ELSE IF Rank(images) # 4 THEN Err("runtime")
    ELSE LET C == images.shape[4]
         IN  Tensor(<<images.shape[1], images.shape[2] \div patch_size,
                      images.shape[3] \div patch_size, patch_size * patch_size * C>>,
                    LAMBDA idx :
                        LET c == idx[4] % C
                            j == (idx[4] \div C) % patch_size
                            i == (idx[4] \div C) \div patch_size
                        IN  At(images, <<idx[1], idx[2] * patch_size + i,
                                         idx[3] * patch_size + j, c>>))

\* Patches layer
vit_Patches(images, patch_size) ==
    LET batch_size == images.shape[1]
        patches == extract_patches(images, patch_size)
    IN  IF ~Ok(images) THEN images
        ELSE IF ~Ok(patches) THEN patches
        ELSE reshape(patches, <<batch_size, -1, patches.shape[4]>>)

\* resampling: the image is restored, cut into patches of new_patch_size =
\* int(sqrt(projection_dim[1])) and flattened again
vit_resampling(encoded_patches, num_patches, projection_dim, num_channels) ==
    reshape(vit_Patches(squeeze(vit_unpatch(vit_unflatten(encoded_patches, num_channels),
                                            num_channels), 1),
                        Isqrt(projection_dim[2])),
            <<-1, num_patches[2], projection_dim[2]>>)

\* DeepPatchEncoder.__init__
vit_DeepPatchEncoder_init(img_size, patch_size, num_channels) ==
    LET num_patches == [i \in 1..2 |-> (img_size \div patch_size[i]) * (img_size \div patch_size[i])]
        projection_dim == [i \in 1..2 |-> num_channels * patch_size[i] * patch_size[i]]
        k == IF patch_size[1] > patch_size[2] THEN 2 ELSE 1
    IN  [class |-> "DeepPatchEncoder", err |-> "none",
         img_size |-> img_size, patch_size |-> patch_size, num_channels |-> num_channels,
         num_patches |-> num_patches, projection_dim |-> projection_dim,
         dense |-> [units |-> projection_dim[1]],
         position_embedding |-> [input_dim |-> num_patches[k], output_dim |-> projection_dim[k]]]

\* DeepPatchEncoder.call. Downsampling: flat + position_embedding(positions) is
\* `encoded`; unpatch(unflatten(encoded, 1), 1) is `restored`, which is cut into
\* patches of patch_size[0], flattened and projected
vit_DeepPatchEncoder_call(self, Xin) ==
    IF self.patch_size[1] > self.patch_size[2]
    THEN Dense(self.dense.units,
               reshape(vit_Patches(squeeze(vit_unpatch(vit_unflatten(
                           Add(reshape(vit_Patches(Xin, self.patch_size[2]),
                                       <<-1, self.num_patches[2], self.projection_dim[2]>>),
                               Embedding(self.position_embedding.input_dim,
                                         self.position_embedding.output_dim,
                                         self.num_patches[2])),
                           1), 1), 1), self.patch_size[1]),
                       <<-1, self.num_patches[1], self.projection_dim[1]>>))
    ELSE Dense(self.dense.units,
               Add(reshape(vit_Patches(Xin, self.patch_size[1]),
                           <<-1, self.num_patches[1], self.projection_dim[1]>>),
                   Embedding(self.position_embedding.input_dim,
                             self.position_embedding.output_dim,
                             self.num_patches[1])))

\* Resampling.__init__
vit_Resampling_init(img_size, patch_size, num_channels, trainable) ==
    LET num_patches == [i \in 1..2 |-> (img_size \div patch_size[i]) * (img_size \div patch_size[i])]
        projection_dim == [i \in 1..2 |-> num_channels * patch_size[i] * patch_size[i]]
    IN  [class |-> "Resampling", err |-> "none",
         img_size |-> img_size, patch_size |-> patch_size, num_patches |-> num_patches,
         num_channels |-> num_channels, projection_dim |-> projection_dim,
         trainable |-> trainable,
         Conv2D_pre |-> [filters |-> num_patches[1], strides |-> 1],
         rs |-> [transposed |-> ~(patch_size[1] > patch_size[2]),
                 filters |-> num_patches[2], strides |-> 2],
         Conv2D_post |-> [filters |-> num_patches[2], strides |-> 1]]

\* Resampling.rs: Conv2D when downsampling, Conv2DTranspose otherwise
vit_Resampling_rs(self, y) ==
    IF self.rs.transposed
    THEN Conv2DTranspose(self.rs.filters, self.rs.strides, y)
    ELSE Conv2D(self.rs.filters, self.rs.strides, y)

\* Resampling.call. Trainable: unflatten, transpose, then Conv2D_pre, rs and Conv2D_post,
\* each mapped over the batch with gelu and followed by Dropout, transpose, reshape
vit_Resampling_call(self, encoded) ==
    IF self.trainable
    THEN reshape(
             transpose(
                 SameShape(map_fn(LAMBDA y : SameShape(Conv2D(self.Conv2D_post.filters,
                                                              self.Conv2D_post.strides, y)),
                 SameShape(map_fn(LAMBDA y : SameShape(vit_Resampling_rs(self, y)),
                 SameShape(map_fn(LAMBDA y : SameShape(Conv2D(self.Conv2D_pre.filters,
                                                              self.Conv2D_pre.strides, y)),
                 transpose(vit_unflatten(encoded, self.num_channels), <<0, 4, 2, 3, 1>>))))))),
                 <<0, 4, 2, 3, 1>>),
             <<-1, self.num_patches[2], self.projection_dim[2]>>)
    ELSE vit_resampling(encoded, self.num_patches, self.projection_dim, self.num_channels)

\* FeedForward.call: Dense, gelu, Dropout, Dense, gelu, Dropout
vit_FeedForward_call(projection_dim, hidden_dim, x) ==
    SameShape(SameShape(Dense(projection_dim, SameShape(SameShape(Dense(hidden_dim, x))))))

\* ReAttention.__init__
vit_ReAttention_init(dim, num_patches, num_channels, num_heads) ==
    IF dim \div num_heads = 0
    THEN Raised("ReAttention", "runtime", "scale", {})
    ELSE [class |-> "ReAttention", err |-> "none",
          dim |-> dim, num_heads |-> num_heads, num_channels |-> num_channels,
          num_patches |-> num_patches, patch_size |-> Isqrt(dim), apply_transform |-> TRUE,
          reatten_matrix |-> [filters |-> num_patches, strides |-> 1],
          qkvconv2d |-> [filters |-> num_channels, strides |-> 1],
          proj |-> [units |-> dim]]

\* ReAttention.create_queries (the same for 'q', 'k' and 'v' up to the weights)
vit_ReAttention_create_queries(self, x) ==
    unstack(transpose(
                reshape(reshape(map_fn(LAMBDA y : SameShape(Conv2D(self.qkvconv2d.filters,
                                                                   self.qkvconv2d.strides, y)),
                                       vit_unflatten(x, self.num_channels)),
                                <<-1, self.num_patches, self.dim>>),
                        <<-1, self.num_patches, self.num_heads, self.dim \div self.num_heads, 1>>),
                <<4, 0, 2, 1, 3>>),
            0)[1]

\* ReAttention.call, `if self.apply_transform`: reatten_matrix, var_norm and the scale
vit_ReAttention_transform(self, attn) ==
    IF self.apply_transform
    THEN SameShape(SameShape(Conv2D(self.reatten_matrix.filters,
                                    self.reatten_matrix.strides, attn)))
    ELSE attn

\* ReAttention.call: the first result (x); the second is the attention tensor.
\* q, k and v are create_queries(x, 'q' / 'k' / 'v'); matmul(q, k) is scaled, put
\* through softmax and attn_drop, transformed and multiplied with v; N, C = x.shape[1:]
vit_ReAttention_call(self, x) ==
    IF ~Ok(x) THEN x
    ELSE IF Rank(x) # 3 THEN Err("runtime")
    ELSE SameShape(Dense(self.proj.units,
             reshape(transpose(
                         MatMul(vit_ReAttention_transform(self,
                                    SameShape(SameShape(SameShape(
                                        MatMul(vit_ReAttention_create_queries(self, x),
                                               vit_ReAttention_create_queries(self, x),
                                               TRUE))))),
                                vit_ReAttention_create_queries(self, x),
                                FALSE),
                         <<0, 2, 1, 3>>),
                     <<-1, x.shape[2], x.shape[3]>>)))

\* ReAttention.call: the second result (attn_next), the attention tensor after
\* softmax, attn_drop and the transform
vit_ReAttention_attn(self, x) ==
    IF ~Ok(x) THEN x
    ELSE IF Rank(x) # 3 THEN Err("runtime")
    ELSE vit_ReAttention_transform(self,
             SameShape(SameShape(SameShape(
                 MatMul(vit_ReAttention_create_queries(self, x),
                        vit_ReAttention_create_queries(self, x),
                        TRUE)))))

\* ReAttention of model/tf/functions.py: the class has the text of the one of
\* model/tf/ViT_model.py but for the default of qkv_bias and the kernel initializers,
\* and the unflatten of its module does the same on the rank-3 tensor that call takes
tf_ReAttention_init(dim, num_patches, num_channels, num_heads) == vit_ReAttention_init(dim, num_patches, num_channels, num_heads)

tf_ReAttention_create_queries(self, x) == vit_ReAttention_create_queries(self, x)

tf_ReAttention_call(self, x) == vit_ReAttention_call(self, x)

tf_ReAttention_attn(self, x) == vit_ReAttention_attn(self, x)

\* ReAttention of hvit/tf/functions.py: the text of the one of model/tf/functions.py
hvit_ReAttention_init(dim, num_patches, num_channels, num_heads) == tf_ReAttention_init(dim, num_patches, num_channels, num_heads)

hvit_ReAttention_create_queries(self, x) == tf_ReAttention_create_queries(self, x)

hvit_ReAttention_call(self, x) == tf_ReAttention_call(self, x)

hvit_ReAttention_attn(self, x) == tf_ReAttention_attn(self, x)

\* AttentionTransformerEncoder.__init__ / ReAttentionTransformerEncoder.__init__
vit_TransformerEncoder_init(original_attn, img_size, patch_size, num_channels, num_heads, transformer_layers, hidden_dim) ==
    LET num_patches == (img_size \div patch_size) * (img_size \div patch_size)
        projection_dim == num_channels * patch_size * patch_size
        ReAttn == vit_ReAttention_init(projection_dim, num_patches, num_channels, num_heads)
    IN  IF ~original_attn /\ transformer_layers > 0 /\ ReAttn.err # "none"
        THEN ReAttn
        ELSE [class |-> IF original_attn THEN "AttentionTransformerEncoder"
                        ELSE "ReAttentionTransformerEncoder",
              err |-> "none", original_attn |-> original_attn,
              img_size |-> img_size, patch_size |-> patch_size, num_channels |-> num_channels,
              num_patches |-> num_patches, projection_dim |-> projection_dim,
              transformer_layers |-> transformer_layers, hidden_dim |-> hidden_dim,
              num_heads |-> num_heads, ReAttn |-> ReAttn]

\* one iteration, first half: the attention layer (MultiHeadAttention or ReAttention),
\* the skip connection and the normalization
vit_TransformerEncoder_attend(self, encoded_patches) ==
    SameShape(Add(IF self.original_attn
                  THEN MultiHeadAttention(encoded_patches, encoded_patches)
                  ELSE vit_ReAttention_call(self.ReAttn, encoded_patches),
                  encoded_patches))

\* one iteration, second half: the feed-forward layer, the skip connection and the
\* normalization
vit_TransformerEncoder_feed(self, encoded_patches) ==
    SameShape(Add(vit_FeedForward_call(self.projection_dim, self.hidden_dim, encoded_patches),
                  encoded_patches))

\* AttentionTransformerEncoder.call / ReAttentionTransformerEncoder.call:
\* the iterations i, ..., transformer_layers - 1 of the loop
RECURSIVE vit_TransformerEncoder_loop(_, _, _)
vit_TransformerEncoder_loop(self, i, encoded_patches) ==
    IF i >= self.transformer_layers \/ ~Ok(encoded_patches) THEN encoded_patches
    ELSE vit_TransformerEncoder_loop(self, i + 1,
             vit_TransformerEncoder_feed(self, vit_TransformerEncoder_attend(self, encoded_patches)))

vit_TransformerEncoder_call(self, encoded_patches) ==
    vit_TransformerEncoder_loop(self, 0, encoded_patches)

\* defaults of HViT.__init__
hidden_unit_factor == 2
num_classes == 4

\* HViT.__init__
vit_HViT_init(img_size, patch_size, num_channels, num_heads, transformer_layers, trainable_rs, original_attn) ==
    LET num_patches == [i \in 1..2 |-> (img_size \div patch_size[i]) * (img_size \div patch_size[i])]
        projection_dim == [i \in 1..2 |-> num_channels * patch_size[i] * patch_size[i]]
        hidden_units == [i \in 1..2 |-> hidden_unit_factor * projection_dim[i]]
        TB1 == vit_TransformerEncoder_init(original_attn, img_size, patch_size[1], num_channels,
                                           num_heads, transformer_layers[1], hidden_units[1])
        TB2 == vit_TransformerEncoder_init(original_attn, img_size, patch_size[2], num_channels,
                                           num_heads, transformer_layers[2], hidden_units[2])
    IN  IF TB1.err # "none" THEN TB1
        ELSE IF TB2.err # "none" THEN TB2
        ELSE [class |-> "HViT", err |-> "none",
              img_size |-> img_size, patch_size |-> patch_size, num_channels |-> num_channels,
              num_heads |-> num_heads, transformer_layers |-> transformer_layers,
              num_classes |-> num_classes, trainable_rs |-> trainable_rs,
              original_attn |-> original_attn,
              num_patches |-> num_patches, projection_dim |-> projection_dim,
              hidden_units |-> hidden_units,
              DPE |-> vit_DeepPatchEncoder_init(img_size, patch_size, num_channels),
              TB1 |-> TB1, TB2 |-> TB2,
              RS |-> vit_Resampling_init(img_size, patch_size, num_channels, trainable_rs)]

\* HViT.MLP: LayerNormalization, Flatten, Dropout, the head Dense layers with their
\* Dropouts, Dense(num_classes)
vit_HViT_MLP(self, encoded_patches) ==
    Dense(self.num_classes, SameShape(Flatten(SameShape(encoded_patches))))

\* ---------------------------------------------- hvit/tf/functions.py
hvit_patches(Xin, patch_size) ==
    IF ~Ok(Xin) THEN Xin
    ELSE IF Rank(Xin) < 2 THEN Err("runtime")
    ELSE LET num_patches == (Xin.shape[2] \div patch_size) * (Xin.shape[2] \div patch_size)
             E == extract_patches(Xin, patch_size)
         IN  IF ~Ok(E) THEN E
             ELSE reshape(E, <<-1, num_patches, E.shape[4]>>)

hvit_unflatten(flattened, num_channels) == tf_unflatten(flattened, num_channels)

hvit_unpatch(x, num_channels) == tf_unpatch(x, num_channels)

\* FeedForward.__init__
hvit_FeedForward_init(projection_dim, hidden_dim) ==
    [class |-> "FeedForward", err |-> "none",
     D1 |-> [op |-> "Dense", units |-> hidden_dim],
     Drop1 |-> [op |-> "Dropout"],
     D2 |-> [op |-> "Dense", units |-> projection_dim],
     Drop2 |-> [op |-> "Dropout"]]

\* FeedForward.call, the layers its statements apply, in order
hvit_FeedForward_layers(self) ==
    <<self.D1, [op |-> "gelu"], self.Drop1, self.D2, [op |-> "gelu"], self.Drop2>>

\* FeedForward.call
hvit_FeedForward_call(self, x) == Sequential(hvit_FeedForward_layers(self), x)

\* PatchEncoder.__init__ that never reads its projection_dim argument:
\* C9_HvitPatchEncoderShape does not survive the change
hvit_PatchEncoder_init_OwnDim(img_size, patch_size, num_channels, projection_dim) ==
    LET num_patches == (img_size \div patch_size) * (img_size \div patch_size)
        pd == num_channels * patch_size * patch_size
    IN  [class |-> "PatchEncoder", err |-> "none",
         img_size |-> img_size, patch_size |-> patch_size, num_channels |-> num_channels,
         num_patches |-> num_patches, projection_dim |-> pd,
         projection |-> [units |-> pd],
         position_embedding |-> [input_dim |-> num_patches, output_dim |-> pd]]

\* PatchEncoder.__init__
hvit_PatchEncoder_init(img_size, patch_size, num_channels, projection_dim) ==
    LET num_patches == (img_size \div patch_size) * (img_size \div patch_size)
        pd == IF projection_dim # None THEN projection_dim
              ELSE num_channels * patch_size * patch_size
    IN  [class |-> "PatchEncoder", err |-> "none",
         img_size |-> img_size, patch_size |-> patch_size, num_channels |-> num_channels,
         num_patches |-> num_patches, projection_dim |-> pd,
         projection |-> [units |-> pd],
         position_embedding |-> [input_dim |-> num_patches, output_dim |-> pd]]

\* PatchEncoder.call
hvit_PatchEncoder_call(self, Xin) ==
    Add(Dense(self.projection.units, hvit_patches(Xin, self.patch_size)),
        Embedding(self.position_embedding.input_dim, self.position_embedding.output_dim,
                  self.num_patches))

\* Resampling.__init__
hvit_Resampling_init(img_size, patch_size, num_channels, projection_dim, resampling_type) ==
    LET num_patches == [i \in 1..2 |-> (img_size \div patch_size[i]) * (img_size \div patch_size[i])]
        pool_size == num_patches[1] \div num_patches[2]
        own == [i \in 1..2 |-> num_channels * patch_size[i] * patch_size[i]]
        base == [class |-> "Resampling", err |-> "none", failed |-> "none",
                 img_size |-> img_size, patch_size |-> patch_size,
                 num_patches |-> num_patches, pool_size |-> pool_size,
                 num_channels |-> num_channels, resampling_type |-> resampling_type]
    IN  IF resampling_type \notin {"max", "standard", "conv"}
        THEN Raised("Resampling", "assert", "resampling_type", {})
        ELSE IF num_patches[2] = 0
        THEN Raised("Resampling", "runtime", "pool_size", {})
        ELSE IF resampling_type = "max"
        THEN IF projection_dim = None
             THEN Raised("Resampling", "assert", "projection_dim", {})
             ELSE LET pd == <<projection_dim, projection_dim>>
                  IN  base @@
                      [projection_dim |-> pd,
                       ps |-> [i \in 1..2 |-> Isqrt(pd[i] \div num_channels)],
                       maxpool |-> [pool_size |-> num_channels * num_patches[2],
                                    strides |-> pool_size \div 2],
                       linear |-> [units |-> pd[2]],
                       positions |-> num_patches[2],
                       position_embedding |-> [input_dim |-> num_patches[2], output_dim |-> pd[2]],
                       layers |-> {"maxpool", "linear", "position_embedding"}]
        ELSE IF resampling_type = "standard"
        THEN LET pd == [i \in 1..2 |-> IF projection_dim # None THEN projection_dim ELSE own[i]]
             IN  base @@
                 [projection_dim |-> pd,
                  positions |-> num_patches[2],
                  position_embedding |-> [input_dim |-> num_patches[2], output_dim |-> pd[2]],
                  linear |-> [units |-> pd[2]],
                  layers |-> {"position_embedding", "linear"}]
        ELSE IF ~(projection_dim = None \/ IsSquare(projection_dim \div num_channels))
        THEN Raised("Resampling", "assert", "perfect_square", {})
        ELSE LET pd == [i \in 1..2 |-> IF projection_dim # None THEN projection_dim ELSE own[i]]
             IN  base @@
                 [projection_dim |-> pd,
                  ps |-> [i \in 1..2 |-> Isqrt(pd[i] \div num_channels)],
                  conv |-> [filters |-> num_channels * num_patches[2],
                            kernel_size |-> pool_size \div 2,
                            strides |-> pool_size \div 2],
                  linear |-> [units |-> pd[2]],
                  positions |-> num_patches[2],
                  position_embedding |-> [input_dim |-> num_patches[2], output_dim |-> pd[2]],
                  layers |-> {"conv", "linear", "position_embedding"}]

\* resampling(encoded_patches, img_size, patch_size, num_channels): the image is
\* restored and cut into patches of patch_size[1]
hvit_resampling(encoded_patches, img_size, patch_size, num_channels) ==
    hvit_patches(squeeze(hvit_unpatch(hvit_unflatten(encoded_patches, num_channels),
                                      num_channels), 1),
                 patch_size[2])

\* Resampling.call, 'max' and 'conv', up to the pooling layer: unflatten, transpose,
\* reshape to [-1, ps[0], ps[0], num_patches[0] * num_channels]
hvit_Resampling_maps(self, encoded) ==
    reshape(transpose(hvit_unflatten(encoded, self.num_channels), <<0, 2, 3, 1, 4>>),
            <<-1, self.ps[1], self.ps[1], self.num_patches[1] * self.num_channels>>)

\* Resampling.call, 'max' and 'conv', after the pooling layer: reshape, transpose,
\* reshape, linear and the position embedding
hvit_Resampling_project(self, pooled) ==
    IF ~Ok(pooled) THEN pooled
    ELSE IF self.pool_size = 0 THEN Err("runtime")
    ELSE Add(Dense(self.linear.units,
                   reshape(transpose(reshape(pooled,
                                             <<-1, (2 * self.ps[1]) \div self.pool_size,
                                               (2 * self.ps[1]) \div self.pool_size,
                                               self.num_patches[2], self.num_channels>>),
                                     <<0, 3, 1, 2, 4>>),
                           <<-1, self.num_patches[2],
                             4 * self.num_channels * (self.ps[1] \div self.pool_size)
                                                   * (self.ps[1] \div self.pool_size)>>)),
             Embedding(self.position_embedding.input_dim, self.position_embedding.output_dim,
                       self.positions))

\* Resampling.call
hvit_Resampling_call(self, encoded) ==
    IF self.resampling_type = "max"
    THEN hvit_Resampling_project(self,
             MaxPool2D(self.maxpool.strides, hvit_Resampling_maps(self, encoded)))
    ELSE IF self.resampling_type = "standard"
    THEN Add(Dense(self.linear.units,
                   hvit_resampling(encoded, self.img_size, self.patch_size, self.num_channels)),
             Embedding(self.position_embedding.input_dim, self.position_embedding.output_dim,
                       self.positions))
    ELSE hvit_Resampling_project(self,
             Conv2D(self.conv.filters, self.conv.strides, hvit_Resampling_maps(self, encoded)))

\* SkipConnection.__init__ without the assertion on `type`:
\* C8_UnknownModeRejectedFirst does not survive the change
hvit_SkipConnection_init_AnyType(img_size, patch_size, num_channels, projection_dim, num_heads, type) ==
    LET num_patches == (img_size \div patch_size) * (img_size \div patch_size)
        pd == IF projection_dim # None THEN projection_dim
              ELSE num_channels * patch_size * patch_size
        base == [class |-> "SkipConnection", err |-> "none", failed |-> "none",
                 img_size |-> img_size, patch_size |-> patch_size, num_heads |-> num_heads,
                 num_channels |-> num_channels, num_patches |-> num_patches,
                 projection_dim |-> pd, type |-> type]
    IN  IF type = "attn"
        THEN base @@ [Attn |-> [num_heads |-> num_heads, key_dim |-> pd, value_dim |-> pd],
                      layers |-> {"Attn"}]
        ELSE IF type = "concat"
        THEN base @@ [linear |-> [units |-> pd], layers |-> {"linear"}]
        ELSE base @@ [layers |-> {}]

\* SkipConnection.__init__
hvit_SkipConnection_init(img_size, patch_size, num_channels, projection_dim, num_heads, type) ==
    LET num_patches == (img_size \div patch_size) * (img_size \div patch_size)
        pd == IF projection_dim # None THEN projection_dim
              ELSE num_channels * patch_size * patch_size
        base == [class |-> "SkipConnection", err |-> "none", failed |-> "none",
                 img_size |-> img_size, patch_size |-> patch_size, num_heads |-> num_heads,
                 num_channels |-> num_channels, num_patches |-> num_patches,
                 projection_dim |-> pd, type |-> type]
    IN  IF type \notin {"attn", "resnet", "concat"}
        THEN Raised("SkipConnection", "assert", "type", {})
        ELSE IF type = "attn"
        THEN base @@ [Attn |-> [num_heads |-> num_heads, key_dim |-> pd, value_dim |-> pd],
                      layers |-> {"Attn"}]
        ELSE IF type = "concat"
        THEN base @@ [linear |-> [units |-> pd], layers |-> {"linear"}]
        ELSE base @@ [layers |-> {}]

\* ---------------------------------------------- model/pytorch/ViT_model.py
\* Tensor.unfold(dim, size, step): windows of `size` along dim, as a new last axis
unfold(t, dim, size, step) ==
    IF ~Ok(t) THEN t
    ELSE IF dim >= Rank(t) THEN Err("runtime")
    ELSE IF size > t.shape[dim + 1] THEN Err("runtime")
    ELSE Tensor([t.shape EXCEPT ![dim + 1] = (t.shape[dim + 1] - size) \div step + 1] \o <<size>>,
                LAMBDA idx : At(t, [k \in 1..Rank(t) |->
                                      IF k = dim + 1 THEN idx[k] * step + idx[Rank(t) + 1]
                                      ELSE idx[k]]))

\* torch.flatten(t, start_dim, end_dim)
flatten(t, start_dim, end_dim) ==
    IF ~Ok(t) THEN t
    ELSE LET a == Axis(start_dim, Rank(t))
             b == Axis(end_dim, Rank(t))
         IN  IF a \notin 1..Rank(t) \/ b \notin 1..Rank(t) \/ a > b THEN Err("runtime")
             ELSE [t EXCEPT !.shape =
                      [k \in 1..(Rank(t) - (b - a)) |->
                          IF k < a THEN t.shape[k]
                          ELSE IF k = a THEN Prod(SubSeq(t.shape, a, b))
                          ELSE t.shape[k + (b - a)]]]

\* torch.squeeze(t, dim): an axis of length other than 1 is left as it is
torch_squeeze(t, dim) ==
    IF ~Ok(t) THEN t
    ELSE IF dim < Rank(t) /\ t.shape[dim + 1] = 1 THEN squeeze(t, dim)
    ELSE t

\* patch that unfolds the width before the height, which transposes every patch:
\* C19_SamePatchNumbering does not survive the change
torch_patch_WidthFirst(Xin, patch_size) ==
    LET X1 == IF Rank(Xin) = 5 THEN torch_squeeze(Xin, 1) ELSE Xin
    IN  IF ~Ok(X1) THEN X1
        ELSE IF Rank(X1) < 2 THEN Err("runtime")
        ELSE IF X1.shape[Rank(X1) - 1] % patch_size # 0 THEN Err("assert")
        ELSE IF X1.shape[Rank(X1)] % patch_size # 0 THEN Err("assert")
        ELSE transpose(flatten(unfold(unfold(X1, 3, patch_size, patch_size),
                                      2, patch_size, patch_size), 2, 3),
                       <<0, 2, 1, 3, 4>>)

torch_patch(Xin, patch_size) ==
    LET X1 == IF Rank(Xin) = 5 THEN torch_squeeze(Xin, 1) ELSE Xin
    IN  IF ~Ok(X1) THEN X1
        ELSE IF Rank(X1) < 2 THEN Err("runtime")
        ELSE IF X1.shape[Rank(X1) - 1] % patch_size # 0 THEN Err("assert")
        ELSE IF X1.shape[Rank(X1)] % patch_size # 0 THEN Err("assert")
        ELSE transpose(flatten(unfold(unfold(X1, 2, patch_size, patch_size),
                                      3, patch_size, patch_size), 2, 3),
                       <<0, 2, 1, 3, 4>>)

torch_unflatten(flattened, num_channels) ==
    IF ~Ok(flattened) THEN flattened
    ELSE IF Rank(flattened) # 3 THEN Err("runtime")
    ELSE LET bs == flattened.shape[1]
             n == flattened.shape[2]
             p == flattened.shape[3]
             s == Isqrt(p \div num_channels)
         IN  reshape(flattened, <<bs, n, num_channels, s, s>>)

\* unpatch without `assert ch==num_channels`: C7_UnpatchChannelAssert does not survive
\* the change
torch_unpatch_sized_Unchecked(x, sized, num_channels) ==
    IF ~Ok(sized) THEN sized
    ELSE IF Rank(sized) # 5 THEN Err("runtime")
    ELSE LET batch_size == sized.shape[1]
             num_patches == sized.shape[2]
             ch == sized.shape[3]
             h == sized.shape[4]
             w == sized.shape[5]
             elem_per_axis == Isqrt(num_patches)
         IN  reshape(map_fn(LAMBDA pm : concat(unstack(pm, 0), -1),
                            map_fn(LAMBDA xi : concat(unstack(xi, 0), -2),
                                   reshape(x, <<batch_size, elem_per_axis, elem_per_axis,
                                                ch, h, w>>))),
                     <<batch_size, 1, ch, h * elem_per_axis, w * elem_per_axis>>)

\* unpatch after its first statement: the sizes are read off `sized`, which is x, or
\* unflatten(x, num_channels) when x has fewer than 5 axes
torch_unpatch_sized(x, sized, num_channels) ==
    IF ~Ok(sized) THEN sized
    ELSE IF Rank(sized) # 5 THEN Err("runtime")
    ELSE LET batch_size == sized.shape[1]
             num_patches == sized.shape[2]
             ch == sized.shape[3]
             h == sized.shape[4]
             w == sized.shape[5]
             elem_per_axis == Isqrt(num_patches)
         IN  IF ch # num_channels THEN Err("assert")
             ELSE reshape(map_fn(LAMBDA pm : concat(unstack(pm, 0), -1),
                                 map_fn(LAMBDA xi : concat(unstack(xi, 0), -2),
                                        reshape(x, <<batch_size, elem_per_axis, elem_per_axis,
                                                     ch, h, w>>))),
                          <<batch_size, 1, ch, h * elem_per_axis, w * elem_per_axis>>)

torch_unpatch(x, num_channels) ==
    IF ~Ok(x) THEN x
    ELSE torch_unpatch_sized(x, IF Rank(x) < 5 THEN torch_unflatten(x, num_channels) ELSE x,
                             num_channels)

\* resampling: the image is restored, cut into patches of patch_size[1] and flattened
torch_resampling(encoded_patches, patch_size, num_channels) ==
    flatten(torch_patch(torch_unpatch(torch_unflatten(encoded_patches, num_channels),
                                      num_channels),
                        patch_size[2]),
            -3, -1)

\* FeedForward.__init__: self.net, a torch.nn.Sequential
torch_FeedForward_init(projection_dim, hidden_dim) ==
    [class |-> "FeedForward", err |-> "none",
     net |-> <<[op |-> "Linear", in_features |-> projection_dim, out_features |-> hidden_dim],
               [op |-> "GELU"],
               [op |-> "Dropout"],
               [op |-> "Linear", in_features |-> hidden_dim, out_features |-> projection_dim],
               [op |-> "Dropout"]>>]

\* FeedForward.forward
torch_FeedForward_forward(self, x) == Sequential(self.net, x)
\* the entries of its input that entry idx of the output of a Conv2D with a 1 x 1 kernel
\* is a combination of: Keras takes the last axis for the channels
Conv2D_reads(shape, idx) == {[idx EXCEPT ![4] = c] : c \in 0..(shape[4] - 1)}

\* the same for torch.nn.Conv2d with a 1 x 1 kernel: the channels are the second axis
torch_Conv2d_reads(shape, idx) == {[idx EXCEPT ![2] = c] : c \in 0..(shape[2] - 1)}

\* torch.nn.Conv2d(in_channels, out_channels, kernel, padding = 'same') on (n, c, h, w):
\* the channels are the second axis and must number in_channels
torch_Conv2d(in_channels, out_channels, t) ==
    IF ~Ok(t) THEN t
    ELSE IF Rank(t) # 4 THEN Err("runtime")
    ELSE IF t.shape[2] # in_channels THEN Err("runtime")
    ELSE Learned(<<t.shape[1], out_channels, t.shape[3], t.shape[4]>>)

\* ReAttention.__init__; reatten_matrix and var_norm exist only `if apply_transform`
torch_ReAttention_init(dim, num_channels, num_heads, apply_transform) ==
    IF dim \div num_heads = 0
    THEN Raised("ReAttention", "runtime", "scale", {})
    ELSE IF apply_transform
    THEN [class |-> "ReAttention", err |-> "none", num_heads |-> num_heads,
          num_channels |-> num_channels, apply_transform |-> TRUE,
          reatten_matrix |-> [op |-> "Conv2d", in_channels |-> num_heads, out_channels |-> num_heads],
          var_norm |-> [op |-> "BatchNorm2d", num_features |-> num_heads],
          qkvconv2d |-> [op |-> "Conv2d", in_channels |-> num_channels, out_channels |-> num_channels],
          proj |-> [op |-> "Linear", in_features |-> dim, out_features |-> dim]]
    ELSE [class |-> "ReAttention", err |-> "none", num_heads |-> num_heads,
          num_channels |-> num_channels, apply_transform |-> FALSE,
          qkvconv2d |-> [op |-> "Conv2d", in_channels |-> num_channels, out_channels |-> num_channels],
          proj |-> [op |-> "Linear", in_features |-> dim, out_features |-> dim]]

\* ReAttention.forward: the right-hand side of q, k and v (the same up to the weights);
\* B, N, C = x.shape
torch_ReAttention_queries(self, x) ==
    IF ~Ok(x) THEN x
    ELSE IF Rank(x) # 3 THEN Err("runtime")
    ELSE unstack(transpose(
                     reshape(flatten(map_fn(LAMBDA y : torch_Conv2d(self.qkvconv2d.in_channels,
                                                                     self.qkvconv2d.out_channels, y),
                                            torch_unflatten(x, self.num_channels)),
                                     -3, -1),
                             <<x.shape[1], x.shape[2], 1, self.num_heads,
                               x.shape[3] \div self.num_heads>>),
                     <<2, 0, 3, 1, 4>>),
                 0)[1]

\* ReAttention.forward: the statements of its body, in order; `when` is the condition
\* the statement stands under, `in` the local names it reads, `out` the one it assigns
torch_ReAttention_forward_body ==
    <<[out |-> "q", op |-> "torch.queries", in |-> <<"x">>, when |-> "always"],
      [out |-> "k", op |-> "torch.queries", in |-> <<"x">>, when |-> "always"],
      [out |-> "v", op |-> "torch.queries", in |-> <<"x">>, when |-> "always"],
      [out |-> "attn", op |-> "matmul_scale", in |-> <<"q", "k">>, when |-> "always"],
      [out |-> "attn_soft", op |-> "softmax", in |-> <<"attn">>, when |-> "always"],
      [out |-> "attn_drop", op |-> "attn_drop", in |-> <<"attn_soft">>, when |-> "always"],
      [out |-> "attn_norm", op |-> "torch.reatten_matrix", in |-> <<"attn_drop">>, when |-> "apply_transform"],
      [out |-> "attn_norm", op |-> "torch.var_norm", in |-> <<"attn_norm">>, when |-> "apply_transform"],
      [out |-> "attn_norm", op |-> "reatten_scale", in |-> <<"attn_norm">>, when |-> "apply_transform"],
      [out |-> "attn_next", op |-> "assign", in |-> <<"attn_norm">>, when |-> "always"],
      [out |-> "x", op |-> "torch.matmul_v", in |-> <<"attn_norm", "v", "x">>, when |-> "always"],
      [out |-> "x_proj", op |-> "torch.proj", in |-> <<"x">>, when |-> "always"],
      [out |-> "x_drop", op |-> "proj_drop", in |-> <<"x_proj">>, when |-> "always"]>>

\* ReAttention.forward: `return x_drop, attn_next`
torch_ReAttention_forward_returns == <<"x_drop", "attn_next">>

\* ReAttention.call of model/tf/functions.py and hvit/tf/functions.py: the statements
\* of its body, in order
tf_ReAttention_call_body ==
    <<[out |-> "q", op |-> "tf.create_queries", in |-> <<"x">>, when |-> "always"],
      [out |-> "k", op |-> "tf.create_queries", in |-> <<"x">>, when |-> "always"],
      [out |-> "v", op |-> "tf.create_queries", in |-> <<"x">>, when |-> "always"],
      [out |-> "attn", op |-> "matmul_scale", in |-> <<"q", "k">>, when |-> "always"],
      [out |-> "attn", op |-> "softmax", in |-> <<"attn">>, when |-> "always"],
      [out |-> "attn", op |-> "attn_drop", in |-> <<"attn">>, when |-> "always"],
      [out |-> "attn", op |-> "tf.reatten_matrix", in |-> <<"attn">>, when |-> "apply_transform"],
      [out |-> "attn", op |-> "tf.var_norm", in |-> <<"attn">>, when |-> "apply_transform"],
      [out |-> "attn", op |-> "reatten_scale", in |-> <<"attn">>, when |-> "apply_transform"],
      [out |-> "attn_next", op |-> "assign", in |-> <<"attn">>, when |-> "always"],
      [out |-> "x", op |-> "tf.matmul_v", in |-> <<"attn", "v", "x">>, when |-> "always"],
      [out |-> "x", op |-> "tf.proj", in |-> <<"x">>, when |-> "always"],
      [out |-> "x", op |-> "proj_drop", in |-> <<"x">>, when |-> "always"]>>

\* ReAttention.call: `return x, attn_next`
tf_ReAttention_call_returns == <<"x", "attn_next">>

\* AttentionTransformerEncoder.__init__ / ReAttentionTransformerEncoder.__init__ of the
\* TensorFlow modules (projection_dim is an argument in hvit/tf/functions.py only):
\* every pass of the loop appends a new instance to each of the four lists
tf_TransformerEncoder_init(original_attn, img_size, patch_size, num_channels, projection_dim, num_heads, transformer_layers, hidden_dim) ==
    LET num_patches == (img_size \div patch_size) * (img_size \div patch_size)
        dim == IF projection_dim # None THEN projection_dim
               ELSE num_channels * patch_size * patch_size
    IN  IF ~original_attn /\ transformer_layers > 0 /\ dim \div num_heads = 0
        THEN Raised("ReAttentionTransformerEncoder", "runtime", "ReAttn", {"LN1", "LN2"})
        ELSE [class |-> IF original_attn THEN "AttentionTransformerEncoder"
                        ELSE "ReAttentionTransformerEncoder",
              err |-> "none", original_attn |-> original_attn,
              img_size |-> img_size, patch_size |-> patch_size, num_channels |-> num_channels,
              num_patches |-> num_patches, projection_dim |-> dim,
              transformer_layers |-> transformer_layers, hidden_dim |-> hidden_dim,
              num_heads |-> num_heads,
              LN1 |-> [i \in 1..transformer_layers |-> <<"LN1", i - 1>>],
              LN2 |-> [i \in 1..transformer_layers |-> <<"LN2", i - 1>>],
              Attn |-> [i \in 1..transformer_layers |->
                           IF original_attn THEN <<"Attn", i - 1>> ELSE <<"ReAttn", i - 1>>],
              ReAttn |-> [i \in 1..transformer_layers |->
                             IF original_attn THEN NoLayer
                             ELSE tf_ReAttention_init(dim, num_patches, num_channels, num_heads)],
              FF |-> [i \in 1..transformer_layers |-> <<"FF", i - 1>>],
              FeedForward |-> [i \in 1..transformer_layers |-> tf_FeedForward_init(dim, hidden_dim)]]

\* AttentionTransformerEncoder.call / ReAttentionTransformerEncoder.call: the statements
\* of pass i of the loop; `layer` is the instance a statement applies
tf_TransformerEncoder_call_pass(self, i) ==
    <<[out |-> "encoded_patch_attn", op |-> IF self.original_attn THEN "Attn" ELSE "ReAttn",
       in |-> IF self.original_attn THEN <<"encoded_patches", "encoded_patches">>
              ELSE <<"encoded_patches">>,
       when |-> "always", layer |-> self.Attn[i + 1]],
      [out |-> "encoded_patches", op |-> "Add", in |-> <<"encoded_patch_attn", "encoded_patches">>,
       when |-> "always", layer |-> <<"Add", 2 * i>>],
      [out |-> "encoded_patches", op |-> "LN", in |-> <<"encoded_patches">>,
       when |-> "always", layer |-> self.LN1[i + 1]],
      [out |-> "encoded_patch_FF", op |-> "FF", in |-> <<"encoded_patches">>,
       when |-> "always", layer |-> self.FF[i + 1]],
      [out |-> "encoded_patches", op |-> "Add", in |-> <<"encoded_patch_FF", "encoded_patches">>,
       when |-> "always", layer |-> <<"Add", 2 * i + 1>>],
      [out |-> "encoded_patches", op |-> "LN", in |-> <<"encoded_patches">>,
       when |-> "always", layer |-> self.LN2[i + 1]]>>

\* `for i in range(self.transformer_layers)`: the passes i, ..., transformer_layers - 1
RECURSIVE tf_TransformerEncoder_call_body(_, _)
tf_TransformerEncoder_call_body(self, i) ==
    IF i >= self.transformer_layers THEN <<>>
    ELSE tf_TransformerEncoder_call_pass(self, i) \o tf_TransformerEncoder_call_body(self, i + 1)

\* the local names of ReAttention.call, ReAttention.forward and the encoders' call
Locals == {"x", "q", "k", "v", "attn", "attn_soft", "attn_drop", "attn_norm", "attn_next",
           "x_proj", "x_drop", "encoded_patches", "encoded_patch_attn", "encoded_patch_FF"}

\* what statement s of a body computes from the values a of the names it reads
Compute(self, s, a) ==
    IF s.op = "tf.create_queries" THEN vit_ReAttention_create_queries(self, a[1])
    ELSE IF s.op = "torch.queries" THEN torch_ReAttention_queries(self, a[1])
    ELSE IF s.op = "matmul_scale" THEN SameShape(MatMul(a[1], a[2], TRUE))
    ELSE IF s.op = "tf.reatten_matrix"
    THEN Conv2D(self.reatten_matrix.filters, self.reatten_matrix.strides, a[1])
    ELSE IF s.op = "torch.reatten_matrix"
    THEN torch_Conv2d(self.reatten_matrix.in_channels, self.reatten_matrix.out_channels, a[1])
    ELSE IF s.op = "torch.var_norm"
    THEN IF Rank(a[1]) # 4 \/ a[1].shape[2] # self.var_norm.num_features THEN Err("runtime")
         ELSE SameShape(a[1])
    ELSE IF s.op = "tf.matmul_v"
    THEN reshape(transpose(MatMul(a[1], a[2], FALSE), <<0, 2, 1, 3>>),
                 <<-1, a[3].shape[2], a[3].shape[3]>>)
    ELSE IF s.op = "torch.matmul_v"
    THEN reshape(transpose(MatMul(a[1], a[2], FALSE), <<0, 2, 1, 3>>), a[3].shape)
    ELSE IF s.op = "tf.proj" THEN Dense(self.proj.units, a[1])
    ELSE IF s.op = "torch.proj" THEN Layer(self.proj, a[1])
    ELSE IF s.op = "Attn" THEN MultiHeadAttention(a[1], a[2])
    ELSE IF s.op = "ReAttn" THEN tf_ReAttention_call(self.ReAttn[s.layer[2] + 1], a[1])
    ELSE IF s.op = "Add" THEN Add(a[1], a[2])
    ELSE IF s.op = "FF" THEN tf_FeedForward_call(self.FeedForward[s.layer[2] + 1], a[1])
    ELSE IF s.op = "assign" THEN a[1]
    ELSE SameShape(a[1])

\* running a body: env holds the value of every local name (Unset before its first
\* assignment), trace the statements that ran. A statement that reads a name never
\* assigned raises UnboundLocalError ("name"); a failed operation raises its error.
RECURSIVE Run(_, _, _, _)
RECURSIVE Assign(_, _, _, _, _)
Run(self, body, env, trace) ==
    IF body = <<>> THEN [err |-> "none", env |-> env, trace |-> trace]
    ELSE IF Head(body).when = "apply_transform" /\ ~self.apply_transform
    THEN Run(self, Tail(body), env, trace)
    ELSE IF \E i \in 1..Len(Head(body).in) : env[Head(body).in[i]] = Unset
    THEN [err |-> "name", env |-> env, trace |-> trace]
    ELSE CHOOSE after \in {Assign(self, body, env, trace, value) :
                              value \in {Compute(self, Head(body),
                                                 [i \in 1..Len(Head(body).in) |-> env[Head(body).in[i]]])}} : TRUE

Assign(self, body, env, trace, value) ==
    IF ~Ok(value) THEN [err |-> value.err, env |-> env, trace |-> trace]
    ELSE Run(self, Tail(body), [env EXCEPT ![Head(body).out] = value],
             Append(trace, [f \in DOMAIN Head(body) \cup {"shape"} |->
                               IF f = "shape" THEN value.shape ELSE Head(body)[f]]))

\* a call of a body on x: every local but the parameter starts unassigned
Called(self, body, x) == Run(self, body, [n \in Locals |-> IF n = "x" THEN x ELSE Unset], <<>>)

\* AttentionTransformerEncoder.call / ReAttentionTransformerEncoder.call on encoded_patches
tf_TransformerEncoder_call(self, encoded_patches) ==
    Run(self, tf_TransformerEncoder_call_body(self, 0),
        [n \in Locals |-> IF n = "encoded_patches" THEN encoded_patches ELSE Unset], <<>>)

\* ReAttention.__init__ of the TensorFlow modules with apply_transform given;
\* reatten_matrix and var_norm exist only `if apply_transform`
tf_ReAttention_init_transform(dim, num_patches, num_channels, num_heads, apply_transform) ==
    IF dim \div num_heads = 0
    THEN Raised("ReAttention", "runtime", "scale", {})
    ELSE IF apply_transform
    THEN tf_ReAttention_init(dim, num_patches, num_channels, num_heads)
    ELSE [class |-> "ReAttention", err |-> "none",
          dim |-> dim, num_heads |-> num_heads, num_channels |-> num_channels,
          num_patches |-> num_patches, patch_size |-> Isqrt(dim), apply_transform |-> FALSE,
          qkvconv2d |-> [filters |-> num_channels, strides |-> 1],
          proj |-> [units |-> dim]]
\* Python values of the argument patch_size: an int, or a list as the annotation
\* List[int] and the default [16, 8] have it
IntValue(n) == [type |-> "int", int |-> n, list |-> <<>>]

ListValue(l) == [type |-> "list", int |-> 0, list |-> l]

Pow(b, e) == Prod([i \in 1..e |-> b])

\* ViT_model.__init__, `# Testing`: the two assertions on patch_size and depth.
\* list % int and list // int raise TypeError
torch_ViT_model_asserts(depth, patch_size) ==
    IF patch_size.type # "int" THEN [err |-> "type", line |-> 238]
    ELSE IF patch_size.int % Pow(2, depth) # 0 THEN [err |-> "assert", line |-> 238]
    ELSE IF patch_size.int \div Pow(2, depth) < 4 THEN [err |-> "assert", line |-> 239]
    ELSE [err |-> "none", line |-> 0]

\* the names the module defines at its top level
torch_module_names ==
    {"patch", "unflatten", "unpatch", "resampling", "PatchEncoder", "FeedForward",
     "ReAttention", "ReAttentionTransformerEncoder", "ViT_model"}

\* the number of positional arguments each class of the module takes at most
torch_signatures ==
    [PatchEncoder |-> 4, FeedForward |-> 5, ReAttention |-> 11,
     ReAttentionTransformerEncoder |-> 10, ViT_model |-> 12]

\* a statement of a method: the attribute of self it assigns, the attributes of self
\* it reads, the module-level name it calls and with how many positional arguments,
\* and the condition it stands under
Statement(line, when, target, reads, calls, nargs) ==
    [line |-> line, when |-> when, target |-> target, reads |-> reads, calls |-> calls,
     nargs |-> nargs]

\* ViT_model.__init__ after the assertions (torch.nn and builtins are not listed in calls)
torch_ViT_model_init_body ==
    <<Statement(241, "always", "depth", <<>>, "", 0),
      Statement(242, "always", "depth_te", <<>>, "", 0),
      Statement(243, "always", "linear_list", <<>>, "", 0),
      Statement(244, "always", "img_size", <<>>, "", 0),
      Statement(245, "always", "patch_size", <<>>, "", 0),
      Statement(246, "always", "num_channels", <<>>, "", 0),
      Statement(247, "always", "num_patches", <<"img_size", "patch_size">>, "", 0),
      Statement(248, "always", "projection_dim", <<"num_channels", "patch_size">>, "", 0),
      Statement(249, "always", "hidden_dim_factor", <<>>, "", 0),
      Statement(250, "always", "num_heads", <<>>, "", 0),
      Statement(251, "always", "attn_drop", <<>>, "", 0),
      Statement(252, "always", "proj_drop", <<>>, "", 0),
      Statement(253, "always", "linear_drop", <<>>, "", 0),
      Statement(254, "always", "device", <<>>, "", 0),
      Statement(256, "always", "PE",
                <<"depth", "num_patches", "patch_size", "num_channels", "preprocessing", "dtype">>,
                "PatchEncoder", 6),
      Statement(257, "always", "Encoders", <<>>, "", 0),
      Statement(258, "always", "", <<"depth">>, "", 0),
      Statement(262, "encoders", "",
                <<"Encoders", "num_patches", "num_channels", "projection_dim", "hidden_dim",
                  "num_heads", "attn_drop", "proj_drop", "linear_drop", "dtype">>,
                "ReAttentionTransformerEncoder", 9),
      Statement(276, "always", "Tube", <<>>, "", 0),
      Statement(277, "always", "linear_list",
                <<"num_channels", "num_patches", "patch_size", "linear_list">>, "", 0),
      Statement(278, "always", "", <<"linear_list">>, "", 0),
      Statement(279, "tube", "", <<"Tube", "linear_list", "dtype", "device">>, "", 0),
      Statement(280, "tube", "", <<"Tube", "linear_drop">>, "", 0)>>

\* PatchEncoder.__init__
torch_PatchEncoder_init_body ==
    <<Statement(59, "always", "img_size", <<>>, "", 0),
      Statement(60, "always", "patch_size", <<>>, "", 0),
      Statement(61, "always", "num_channels", <<>>, "", 0),
      Statement(62, "always", "num_patches", <<"img_size", "patch_size">>, "", 0),
      Statement(63, "always", "projection_dim", <<"num_channels", "patch_size">>, "", 0),
      Statement(64, "always", "device", <<>>, "", 0),
      Statement(65, "always", "", <<"patch_size">>, "", 0),
      Statement(66, "always", "positions", <<"num_patches", "device">>, "", 0),
      Statement(78, "always", "linear", <<"projection_dim">>, "", 0),
      Statement(79, "always", "position_embedding",
                <<"num_patches_final", "num_channels", "patch_size_final", "device">>, "", 0)>>

\* PatchEncoder.forward: the branch `if self.patch_size[0] > self.patch_size[1]`, which
\* ends in `return encoded`; there is no other return
torch_PatchEncoder_forward_body ==
    <<Statement(85, "always", "", <<"patch_size">>, "", 0),
      Statement(86, "down", "", <<"patch_size">>, "patch", 2),
      Statement(88, "down", "", <<"position_embedding", "positions">>, "", 0),
      Statement(89, "down", "", <<"num_channels">>, "unflatten", 2),
      Statement(90, "down", "", <<"num_channels">>, "unpatch", 2),
      Statement(91, "down", "", <<"patch_size">>, "patch", 2),
      Statement(92, "down", "", <<"linear">>, "", 0),
      Statement(93, "down", "return", <<>>, "", 0)>>

\* ViT_model.forward
torch_ViT_model_forward_body ==
    <<Statement(286, "always", "", <<"PE">>, "", 0),
      Statement(288, "always", "", <<"Encoders">>, "", 0),
      Statement(290, "encoders", "", <<"depth_te">>, "", 0),
      Statement(291, "encoders", "", <<"num_channels">>, "downsampling", 2),
      Statement(294, "always", "", <<"Tube">>, "", 0),
      Statement(296, "always", "return", <<>>, "", 0)>>

\* running the statements i, i + 1, ... of a body whose conditions in `holds` hold, on
\* an object with the attributes `assigned`: reading an attribute that is not assigned
\* raises AttributeError and calling a name the module does not define NameError
\* ("name"), too many positional arguments TypeError ("type"); `returned` tells whether
\* a return statement ran
RECURSIVE Execute(_, _, _, _, _)
Execute(body, i, holds, assigned, returned) ==
    IF i > Len(body) \/ returned
    THEN [err |-> "none", line |-> 0, assigned |-> assigned, returned |-> returned]
    ELSE IF body[i].when \notin holds THEN Execute(body, i + 1, holds, assigned, returned)
    ELSE IF \E n \in 1..Len(body[i].reads) : body[i].reads[n] \notin assigned
    THEN [err |-> "name", line |-> body[i].line, assigned |-> assigned, returned |-> FALSE]
    ELSE IF body[i].calls # "" /\ body[i].calls \notin torch_module_names
    THEN [err |-> "name", line |-> body[i].line, assigned |-> assigned, returned |-> FALSE]
    ELSE IF body[i].calls # "" /\ body[i].calls \in DOMAIN torch_signatures
               /\ body[i].nargs > torch_signatures[body[i].calls]
    THEN [err |-> "type", line |-> body[i].line, assigned |-> assigned, returned |-> FALSE]
    ELSE Execute(body, i + 1, holds,
                 IF body[i].target \in {"", "return"} THEN assigned
                 ELSE assigned \cup {body[i].target},
                 body[i].target = "return")

\* ViT_model.__init__: the encoder at list position j (from 0) is built for
\* num_patches * 4^level tokens of dimension projection_dim // 4^level, level = j // depth_te
torch_ViT_model_Encoders(depth, depth_te, num_patches, projection_dim) ==
    [j \in 1..(depth * depth_te) |->
        [num_patches |-> num_patches * Pow(4, (j - 1) \div depth_te),
         projection_dim |-> projection_dim \div Pow(4, (j - 1) \div depth_te)]]

\* ViT_model.__init__
torch_ViT_model_init(depth, depth_te, linear_list, img_size, patch_size, num_channels) ==
    IF torch_ViT_model_asserts(depth, patch_size).err # "none"
    THEN [class |-> "ViT_model", err |-> torch_ViT_model_asserts(depth, patch_size).err,
          line |-> torch_ViT_model_asserts(depth, patch_size).line]
    ELSE IF Execute(torch_ViT_model_init_body, 1,
                    {"always"} \cup (IF depth * depth_te > 0 THEN {"encoders"} ELSE {})
                               \cup (IF linear_list # <<>> THEN {"tube"} ELSE {}),
                    {}, FALSE).err # "none"
    THEN [class |-> "ViT_model",
          err |-> Execute(torch_ViT_model_init_body, 1,
                          {"always"} \cup (IF depth * depth_te > 0 THEN {"encoders"} ELSE {})
                                     \cup (IF linear_list # <<>> THEN {"tube"} ELSE {}),
                          {}, FALSE).err,
          line |-> Execute(torch_ViT_model_init_body, 1,
                           {"always"} \cup (IF depth * depth_te > 0 THEN {"encoders"} ELSE {})
                                      \cup (IF linear_list # <<>> THEN {"tube"} ELSE {}),
                           {}, FALSE).line]
    ELSE [class |-> "ViT_model", err |-> "none", line |-> 0,
          depth |-> depth, depth_te |-> depth_te, img_size |-> img_size,
          patch_size |-> patch_size.int, num_channels |-> num_channels,
          num_patches |-> (img_size \div patch_size.int) * (img_size \div patch_size.int),
          projection_dim |-> num_channels * patch_size.int * patch_size.int,
          Encoders |-> torch_ViT_model_Encoders(depth, depth_te,
                           (img_size \div patch_size.int) * (img_size \div patch_size.int),
                           num_channels * patch_size.int * patch_size.int),
          linear_list |-> <<num_channels * (img_size \div patch_size.int) * (img_size \div patch_size.int)
                              * patch_size.int * patch_size.int>> \o linear_list,
          assigned |-> Execute(torch_ViT_model_init_body, 1,
                               {"always"} \cup (IF depth * depth_te > 0 THEN {"encoders"} ELSE {})
                                          \cup (IF linear_list # <<>> THEN {"tube"} ELSE {}),
                               {}, FALSE).assigned]

\* PatchEncoder.__init__
torch_PatchEncoder_init(img_size, patch_size, num_channels) ==
    IF Execute(torch_PatchEncoder_init_body, 1, {"always"}, {}, FALSE).err # "none"
    THEN [class |-> "PatchEncoder",
          err |-> Execute(torch_PatchEncoder_init_body, 1, {"always"}, {}, FALSE).err,
          line |-> Execute(torch_PatchEncoder_init_body, 1, {"always"}, {}, FALSE).line]
    ELSE [class |-> "PatchEncoder", err |-> "none", line |-> 0,
          img_size |-> img_size, patch_size |-> patch_size, num_channels |-> num_channels,
          assigned |-> Execute(torch_PatchEncoder_init_body, 1, {"always"}, {}, FALSE).assigned]

\* ViT_model.forward / PatchEncoder.forward on an object as its constructor left it:
\* the error raised, or whether a value was returned (a method that ends without
\* `return` gives None)
torch_forward(self, body, holds) == Execute(body, 1, holds, self.assigned, FALSE)

\* what a call of forward gives its caller: the error, None, or a tensor
torch_forward_value(res, shape) ==
    IF res.err # "none" THEN Err(res.err)
    ELSE IF ~res.returned THEN Err("None")
    ELSE Learned(shape)

VARIABLES X, pc, arg, pat, out, obj, shapes

vars == <<X, pc, arg, pat, out, obj, shapes>>

\* the image whose entry (b, y, x, c) is its own row-major position: all entries differ
Image(B, H, W, C) == Tensor(<<B, H, W, C>>, LAMBDA idx : Ravel(idx, <<B, H, W, C>>))

ImgB == X.shape[1]
ImgH == X.shape[2]
ImgW == X.shape[3]
ImgC == X.shape[4]

\* the same image in PyTorch's layout (B, C, H, W)
TorchImage(t) == transpose(t, <<0, 3, 1, 2>>)

NoArg == [lib |-> "none", patch_size |-> 0, uf_channels |-> 0, num_channels |-> 0,
          projection_dim |-> None, patch_sizes |-> <<0, 0>>, mode |-> "", num_heads |-> 0,
          transformer_layers |-> <<0, 0>>, trainable_rs |-> FALSE, original_attn |-> FALSE]

NoObj == [class |-> "none", err |-> "none"]

Init ==
    /\ X \in {Image(B, H, W, C) : B \in Batches, H \in Sides, W \in Sides, C \in Channels}
    /\ pc = "start"
    /\ arg = NoArg
    /\ pat = Unset
    /\ out = Unset
    /\ obj = NoObj
    /\ shapes = <<>>

\* patches(X, patch_size) of model/tf/functions.py
PatchesTf ==
    /\ pc = "start"
    /\ \E ps \in PatchSizes :
          /\ pat' = tf_patches(X, ps)
          /\ arg' = [NoArg EXCEPT !.lib = "tf", !.patch_size = ps]
    /\ pc' = "patched"
    /\ UNCHANGED <<X, out, obj, shapes>>

\* patch(X, patch_size) of model/tf/ViT_model.py
PatchVit ==
    /\ pc = "start"
    /\ \E ps \in PatchSizes :
          /\ pat' = vit_patch(X, ps)
          /\ arg' = [NoArg EXCEPT !.lib = "vit", !.patch_size = ps]
    /\ pc' = "patched"
    /\ UNCHANGED <<X, out, obj, shapes>>

\* patches(X, patch_size) of hvit/tf/functions.py
PatchesHvit ==
    /\ pc = "start"
    /\ \E ps \in PatchSizes :
          /\ pat' = hvit_patches(X, ps)
          /\ arg' = [NoArg EXCEPT !.lib = "hvit", !.patch_size = ps]
    /\ pc' = "patched"
    /\ UNCHANGED <<X, out, obj, shapes>>

\* patch(X, patch_size) of model/pytorch/ViT_model.py
PatchTorch ==
    /\ pc = "start"
    /\ \E ps \in PatchSizes :
          /\ pat' = torch_patch(TorchImage(X), ps)
          /\ arg' = [NoArg EXCEPT !.lib = "torch", !.patch_size = ps]
    /\ pc' = "patched"
    /\ UNCHANGED <<X, out, obj, shapes>>

\* unflatten(patches, num_channels) of hvit/tf/functions.py on the flat patches
UnflattenHvit ==
    /\ pc = "patched"
    /\ arg.lib = "hvit"
    /\ Ok(pat)
    /\ \E nc \in Channels :
          /\ pat' = hvit_unflatten(pat, nc)
          /\ arg' = [arg EXCEPT !.uf_channels = nc]
    /\ pc' = "unflattened"
    /\ UNCHANGED <<X, out, obj, shapes>>

Unpatch(lib, x, nc) ==
    CASE lib = "tf" -> tf_unpatch(x, nc)
      [] lib = "vit" -> vit_unpatch(x, nc)
      [] lib = "hvit" -> hvit_unpatch(x, nc)
      [] lib = "torch" -> torch_unpatch(x, nc)

\* unpatch(x, num_channels) on the rank-5 patch tensor
UnpatchStep ==
    /\ \/ pc = "patched" /\ arg.lib \in {"tf", "vit", "torch"}
       \/ pc = "unflattened" /\ arg.lib = "hvit"
    /\ Ok(pat)
    /\ \E nc \in Channels :
          /\ out' = Unpatch(arg.lib, pat, nc)
          /\ arg' = [arg EXCEPT !.num_channels = nc]
    /\ pc' = "done"
    /\ UNCHANGED <<X, pat, obj, shapes>>

\* the four modules
Libs == {"tf", "vit", "hvit", "torch"}

Unflatten(lib, flattened, nc) ==
    CASE lib = "tf" -> tf_unflatten(flattened, nc)
      [] lib = "vit" -> vit_unflatten(flattened, nc)
      [] lib = "hvit" -> hvit_unflatten(flattened, nc)
      [] lib = "torch" -> torch_unflatten(flattened, nc)

\* the entries of X as a flat patch sequence of shape (B, n, p)
Sequence == reshape(X, <<ImgB, ImgH, ImgW * ImgC>>)

\* unflatten(flattened, num_channels) of each module on a flat sequence of shape (B, n, p)
UnflattenSequence ==
    /\ pc = "start"
    /\ \E lib \in Libs, nc \in Channels :
          /\ pat' = Sequence
          /\ out' = Unflatten(lib, pat', nc)
          /\ arg' = [NoArg EXCEPT !.lib = lib, !.uf_channels = nc, !.num_channels = nc]
    /\ pc' = "seq_unflattened"
    /\ UNCHANGED <<X, obj, shapes>>

\* unpatch(x, num_channels) of each module on a flat sequence of shape (B, n, p)
UnpatchSequence ==
    /\ pc = "start"
    /\ \E lib \in Libs, nc \in Channels :
          /\ pat' = Sequence
          /\ out' = Unpatch(lib, pat', nc)
          /\ arg' = [NoArg EXCEPT !.lib = lib, !.uf_channels = nc, !.num_channels = nc]
    /\ pc' = "seq_unpatched"
    /\ UNCHANGED <<X, obj, shapes>>

\* the function resampling of the modules that define one with patch sizes
resampling(lib, encoded_patches, img_size, patch_size, num_channels) ==
    CASE lib = "tf" -> tf_resampling(encoded_patches, img_size, patch_size, num_channels)
      [] lib = "hvit" -> hvit_resampling(encoded_patches, img_size, patch_size, num_channels)
      [] lib = "torch" -> torch_resampling(encoded_patches, patch_size, num_channels)

\* the patches of X of size patch_size as a sequence of shape
\* (B, (img / patch_size)^2, num_channels * patch_size^2)
Encoded(lib, patch_size) ==
    CASE lib = "tf" -> reshape(tf_patches(X, patch_size),
                               <<ImgB, (ImgH \div patch_size) * (ImgH \div patch_size),
                                 ImgC * patch_size * patch_size>>)
      [] lib = "hvit" -> reshape(hvit_patches(X, patch_size),
                                 <<ImgB, (ImgH \div patch_size) * (ImgH \div patch_size),
                                   ImgC * patch_size * patch_size>>)
      [] lib = "torch" -> flatten(torch_patch(TorchImage(X), patch_size), -3, -1)

\* resampling(encoded_patches, img_size, [a, b], num_channels) on a sequence of shape
\* (B, (img / a)^2, num_channels * a^2)
ResamplingThere ==
    /\ pc = "start"
    /\ ImgH = ImgW
    /\ \E lib \in {"tf", "hvit", "torch"}, a \in PatchSizes, b \in PatchSizes :
          /\ ImgH % a = 0
          /\ ImgH % b = 0
          /\ pat' = Encoded(lib, a)
          /\ out' = resampling(lib, pat', ImgH, <<a, b>>, ImgC)
          /\ arg' = [NoArg EXCEPT !.lib = lib, !.patch_sizes = <<a, b>>, !.num_channels = ImgC]
    /\ pc' = "rs_there"
    /\ UNCHANGED <<X, obj, shapes>>

\* resampling(encoded_patches, img_size, [b, a], num_channels) on the result of the
\* resampling from a to b; `shapes` keeps the shape of that result
ResamplingBack ==
    /\ pc = "rs_there"
    /\ out' = resampling(arg.lib, out, ImgH, <<arg.patch_sizes[2], arg.patch_sizes[1]>>,
                         arg.num_channels)
    /\ shapes' = <<out.shape>>
    /\ pc' = "rs_back"
    /\ UNCHANGED <<X, pat, arg, obj>>

\* Patches(patch_size)(images) of model/tf/ViT_model.py
PatchesLayerVit ==
    /\ pc = "start"
    /\ \E ps \in PatchSizes :
          /\ out' = vit_Patches(X, ps)
          /\ arg' = [NoArg EXCEPT !.lib = "vit", !.patch_size = ps]
    /\ pc' = "patches_layer"
    /\ UNCHANGED <<X, pat, obj, shapes>>

\* PatchEncoder(img_size, patch_size, num_channels)(X) of model/tf/functions.py,
\* on an image of shape (B, img_size, img_size, num_channels)
PatchEncoderTf ==
    /\ pc = "start"
    /\ ImgH = ImgW
    /\ \E ps \in PatchSizes :
          /\ obj' = tf_PatchEncoder_init(ImgH, ps, ImgC)
          /\ out' = tf_PatchEncoder_call(obj', X)
          /\ arg' = [NoArg EXCEPT !.lib = "tf", !.patch_size = ps, !.num_channels = ImgC]
    /\ pc' = "encoded"
    /\ UNCHANGED <<X, pat, shapes>>

\* PatchEncoder(img_size, patch_size, num_channels, projection_dim)(X) of hvit/tf/functions.py
PatchEncoderHvit ==
    /\ pc = "start"
    /\ ImgH = ImgW
    /\ \E ps \in PatchSizes, pd \in ProjDims :
          /\ obj' = hvit_PatchEncoder_init(ImgH, ps, ImgC, pd)
          /\ out' = hvit_PatchEncoder_call(obj', X)
          /\ arg' = [NoArg EXCEPT !.lib = "hvit", !.patch_size = ps, !.num_channels = ImgC,
                                  !.projection_dim = pd]
    /\ pc' = "encoded"
    /\ UNCHANGED <<X, pat, shapes>>

\* what a finished stage of a forward pass left: the error, if any, and the shape
Sh(t) == [err |-> t.err, shape |-> t.shape]

\* the lists of 2 or 3 patch sizes that divide n
PatchLists(n) ==
    LET D == {p \in PatchSizes : n % p = 0}
    IN  {<<p, q>> : p \in D, q \in D} \cup {<<p, q, r>> : p \in D, q \in D, r \in D}

\* DeepPatchEncoder(img_size, patch_size, num_channels) of model/tf/functions.py and
\* its call on X; `shapes` keeps the positional tensor of each level of the loop
DeepPatchEncoderTf ==
    /\ pc = "start"
    /\ ImgH = ImgW
    /\ \E ps \in PatchLists(ImgH) :
          /\ obj' = tf_DeepPatchEncoder_init(ImgH, ps, ImgC)
          /\ out' = IF obj'.err = "none" THEN tf_DeepPatchEncoder_call(obj', X) ELSE Unset
          /\ shapes' = IF obj'.err = "none"
                       THEN [i \in 1..(Len(ps) - 1) |-> Sh(tf_DeepPatchEncoder_positions(obj', i))]
                       ELSE <<>>
          /\ arg' = [NoArg EXCEPT !.lib = "tf", !.patch_sizes = ps, !.num_channels = ImgC]
    /\ pc' = "dpe_called"
    /\ UNCHANGED <<X, pat>>

\* Resampling(img_size, patch_size, num_channels, trainable = trainable) of
\* model/tf/functions.py, called on the image's patches of patch_size[0], flattened
\* to (B, num_patches[0], projection_dim[0])
ResamplingTf ==
    /\ pc = "start"
    /\ ImgH = ImgW
    /\ \E p0 \in PatchSizes, p1 \in PatchSizes, trs \in BOOLEAN :
          /\ ImgH % p0 = 0
          /\ ImgH % p1 = 0
          /\ obj' = tf_Resampling_init(ImgH, <<p0, p1>>, ImgC, trs)
          /\ pat' = reshape(tf_patches(X, p0),
                            <<-1, obj'.num_patches[1], obj'.projection_dim[1]>>)
          /\ out' = tf_Resampling_call(obj', pat')
          /\ arg' = [NoArg EXCEPT !.lib = "tf", !.patch_sizes = <<p0, p1>>,
                                  !.num_channels = ImgC, !.trainable_rs = trs]
    /\ pc' = "rs_called"
    /\ UNCHANGED <<X, shapes>>

\* Resampling(img_size, patch_size, num_channels, trainable = trainable) of
\* model/tf/ViT_model.py, called on the image's patches of patch_size[0], flattened
\* to (B, num_patches[0], projection_dim[0])
ResamplingVit ==
    /\ pc = "start"
    /\ ImgH = ImgW
    /\ \E p0 \in PatchSizes, p1 \in PatchSizes, trs \in BOOLEAN :
          /\ ImgH % p0 = 0
          /\ ImgH % p1 = 0
          /\ obj' = vit_Resampling_init(ImgH, <<p0, p1>>, ImgC, trs)
          /\ pat' = reshape(vit_Patches(X, p0),
                            <<-1, obj'.num_patches[1], obj'.projection_dim[1]>>)
          /\ out' = vit_Resampling_call(obj', pat')
          /\ arg' = [NoArg EXCEPT !.lib = "vit", !.patch_sizes = <<p0, p1>>,
                                  !.num_channels = ImgC, !.trainable_rs = trs]
    /\ pc' = "rs_called"
    /\ UNCHANGED <<X, shapes>>

\* Resampling(img_size, patch_size, num_channels, projection_dim, resampling_type)
\* of hvit/tf/functions.py
ResamplingInitHvit ==
    /\ pc = "start"
    /\ ImgH = ImgW
    /\ \E p0 \in PatchSizes, p1 \in PatchSizes, pd \in ProjDims, m \in Modes :
          /\ obj' = hvit_Resampling_init(ImgH, <<p0, p1>>, ImgC, pd, m)
          /\ arg' = [NoArg EXCEPT !.lib = "hvit", !.patch_sizes = <<p0, p1>>,
                                  !.num_channels = ImgC, !.projection_dim = pd, !.mode = m]
    /\ pc' = "resampling_built"
    /\ UNCHANGED <<X, pat, out, shapes>>

\* Resampling.call of hvit/tf/functions.py on an encoding of shape
\* (B, num_patches[0], projection_dim[0])
ResamplingCallHvit ==
    /\ pc = "resampling_built"
    /\ obj.err = "none"
    /\ out' = hvit_Resampling_call(obj, Learned(<<ImgB, obj.num_patches[1], obj.projection_dim[1]>>))
    /\ pc' = "resampled"
    /\ UNCHANGED <<X, pat, arg, obj, shapes>>

\* ReAttention(dim, num_patches, num_channels, num_heads) of model/tf/functions.py and
\* its call on an input of shape (B, num_patches, dim); `pat` keeps the queries and
\* `shapes` the attention tensor
ReAttentionTf ==
    /\ pc = "start"
    /\ \E dim \in 1..MaxProj, h \in Heads :
          /\ obj' = tf_ReAttention_init(dim, ImgH, ImgC, h)
          /\ pat' = IF obj'.err = "none"
                    THEN tf_ReAttention_create_queries(obj', Learned(<<ImgB, ImgH, dim>>))
                    ELSE Unset
          /\ out' = IF obj'.err = "none"
                    THEN tf_ReAttention_call(obj', Learned(<<ImgB, ImgH, dim>>))
                    ELSE Unset
          /\ shapes' = IF obj'.err = "none"
                       THEN <<Sh(tf_ReAttention_attn(obj', Learned(<<ImgB, ImgH, dim>>)))>>
                       ELSE <<>>
          /\ arg' = [NoArg EXCEPT !.lib = "tf", !.projection_dim = dim, !.num_heads = h,
                                  !.num_channels = ImgC]
    /\ pc' = "reattn_called"
    /\ UNCHANGED X

\* ReAttention(dim, num_patches, num_channels, num_heads) of model/tf/ViT_model.py and
\* its call on an input of shape (B, num_patches, dim)
ReAttentionVit ==
    /\ pc = "start"
    /\ \E dim \in 1..MaxProj, h \in Heads :
          /\ obj' = vit_ReAttention_init(dim, ImgH, ImgC, h)
          /\ pat' = IF obj'.err = "none"
                    THEN vit_ReAttention_create_queries(obj', Learned(<<ImgB, ImgH, dim>>))
                    ELSE Unset
          /\ out' = IF obj'.err = "none"
                    THEN vit_ReAttention_call(obj', Learned(<<ImgB, ImgH, dim>>))
                    ELSE Unset
          /\ shapes' = IF obj'.err = "none"
                       THEN <<Sh(vit_ReAttention_attn(obj', Learned(<<ImgB, ImgH, dim>>)))>>
                       ELSE <<>>
          /\ arg' = [NoArg EXCEPT !.lib = "vit", !.projection_dim = dim, !.num_heads = h,
                                  !.num_channels = ImgC]
    /\ pc' = "reattn_called"
    /\ UNCHANGED X

\* ReAttention(dim, num_patches, num_channels, num_heads) of hvit/tf/functions.py and
\* its call on an input of shape (B, num_patches, dim)
ReAttentionHvit ==
    /\ pc = "start"
    /\ \E dim \in 1..MaxProj, h \in Heads :
          /\ obj' = hvit_ReAttention_init(dim, ImgH, ImgC, h)
          /\ pat' = IF obj'.err = "none"
                    THEN hvit_ReAttention_create_queries(obj', Learned(<<ImgB, ImgH, dim>>))
                    ELSE Unset
          /\ out' = IF obj'.err = "none"
                    THEN hvit_ReAttention_call(obj', Learned(<<ImgB, ImgH, dim>>))
                    ELSE Unset
          /\ shapes' = IF obj'.err = "none"
                       THEN <<Sh(hvit_ReAttention_attn(obj', Learned(<<ImgB, ImgH, dim>>)))>>
                       ELSE <<>>
          /\ arg' = [NoArg EXCEPT !.lib = "hvit", !.projection_dim = dim, !.num_heads = h,
                                  !.num_channels = ImgC]
    /\ pc' = "reattn_called"
    /\ UNCHANGED X

\* FeedForward(projection_dim, hidden_dim, dropout) of model/tf/functions.py and its
\* call on an input of shape (B, N, projection_dim); `shapes` keeps the layers applied
FeedForwardTf ==
    /\ pc = "start"
    /\ \E pd \in 1..MaxProj, hd \in 1..MaxProj :
          /\ obj' = tf_FeedForward_init(pd, hd)
          /\ shapes' = tf_FeedForward_layers(obj')
          /\ out' = tf_FeedForward_call(obj', Learned(<<ImgB, ImgH, pd>>))
          /\ arg' = [NoArg EXCEPT !.lib = "tf", !.projection_dim = pd]
    /\ pc' = "ff_called"
    /\ UNCHANGED <<X, pat>>

\* FeedForward(projection_dim, hidden_dim, dropout) of hvit/tf/functions.py and its
\* call on an input of shape (B, N, projection_dim); `shapes` keeps the layers applied
FeedForwardHvit ==
    /\ pc = "start"
    /\ \E pd \in 1..MaxProj, hd \in 1..MaxProj :
          /\ obj' = hvit_FeedForward_init(pd, hd)
          /\ shapes' = hvit_FeedForward_layers(obj')
          /\ out' = hvit_FeedForward_call(obj', Learned(<<ImgB, ImgH, pd>>))
          /\ arg' = [NoArg EXCEPT !.lib = "hvit", !.projection_dim = pd]
    /\ pc' = "ff_called"
    /\ UNCHANGED <<X, pat>>

\* FeedForward(projection_dim, hidden_dim, dropout) of model/pytorch/ViT_model.py and its
\* forward on an input of shape (B, N, projection_dim); `shapes` keeps the layers applied
FeedForwardTorch ==
    /\ pc = "start"
    /\ \E pd \in 1..MaxProj, hd \in 1..MaxProj :
          /\ obj' = torch_FeedForward_init(pd, hd)
          /\ shapes' = obj'.net
          /\ out' = torch_FeedForward_forward(obj', Learned(<<ImgB, ImgH, pd>>))
          /\ arg' = [NoArg EXCEPT !.lib = "torch", !.projection_dim = pd]
    /\ pc' = "ff_called"
    /\ UNCHANGED <<X, pat>>

\* what a call returns under a name: the value of the name, or the error raised
Returned(res, name) ==
    IF res.err # "none" THEN Err(res.err)
    ELSE IF res.env[name] = Unset THEN Err("name")
    ELSE res.env[name]

\* ReAttention(dim, num_patches, num_channels, num_heads, apply_transform = at) of model/tf/functions.py
\* and its call on an input of shape (B, N, dim): `out` and `pat` keep the two values
\* returned, `shapes` the statements that ran
ReAttentionCallTf ==
    /\ pc = "start"
    /\ \E dim \in 1..MaxProj, h \in Heads, at \in BOOLEAN :
          /\ obj' = tf_ReAttention_init_transform(dim, ImgH, ImgC, h, at)
          /\ \E res \in {IF obj'.err = "none"
                          THEN Called(obj', tf_ReAttention_call_body, Learned(<<ImgB, ImgH, dim>>))
                          ELSE [err |-> "unset", env |-> <<>>, trace |-> <<>>]} :
                /\ out' = Returned(res, tf_ReAttention_call_returns[1])
                /\ pat' = Returned(res, tf_ReAttention_call_returns[2])
                /\ shapes' = res.trace
          /\ arg' = [NoArg EXCEPT !.lib = "tf", !.projection_dim = dim, !.num_heads = h,
                                  !.num_channels = ImgC, !.mode = IF at THEN "transform" ELSE "plain"]
    /\ pc' = "reattn_ran"
    /\ UNCHANGED X

\* ReAttention(dim, num_patches, num_channels, num_heads, apply_transform = at) of hvit/tf/functions.py
\* and its call on an input of shape (B, N, dim): `out` and `pat` keep the two values
\* returned, `shapes` the statements that ran
ReAttentionCallHvit ==
    /\ pc = "start"
    /\ \E dim \in 1..MaxProj, h \in Heads, at \in BOOLEAN :
          /\ obj' = tf_ReAttention_init_transform(dim, ImgH, ImgC, h, at)
          /\ \E res \in {IF obj'.err = "none"
                          THEN Called(obj', tf_ReAttention_call_body, Learned(<<ImgB, ImgH, dim>>))
                          ELSE [err |-> "unset", env |-> <<>>, trace |-> <<>>]} :
                /\ out' = Returned(res, tf_ReAttention_call_returns[1])
                /\ pat' = Returned(res, tf_ReAttention_call_returns[2])
                /\ shapes' = res.trace
          /\ arg' = [NoArg EXCEPT !.lib = "hvit", !.projection_dim = dim, !.num_heads = h,
                                  !.num_channels = ImgC, !.mode = IF at THEN "transform" ELSE "plain"]
    /\ pc' = "reattn_ran"
    /\ UNCHANGED X

\* ReAttention(dim, num_channels, num_heads, apply_transform = at) of model/pytorch/ViT_model.py
\* and its forward on an input of shape (B, N, dim): `out` and `pat` keep the two values
\* returned, `shapes` the statements that ran
ReAttentionCallTorch ==
    /\ pc = "start"
    /\ \E dim \in 1..MaxProj, h \in Heads, at \in BOOLEAN :
          /\ obj' = torch_ReAttention_init(dim, ImgC, h, at)
          /\ \E res \in {IF obj'.err = "none"
                          THEN Called(obj', torch_ReAttention_forward_body, Learned(<<ImgB, ImgH, dim>>))
                          ELSE [err |-> "unset", env |-> <<>>, trace |-> <<>>]} :
                /\ out' = Returned(res, torch_ReAttention_forward_returns[1])
                /\ pat' = Returned(res, torch_ReAttention_forward_returns[2])
                /\ shapes' = res.trace
          /\ arg' = [NoArg EXCEPT !.lib = "torch", !.projection_dim = dim, !.num_heads = h,
                                  !.num_channels = ImgC, !.mode = IF at THEN "transform" ELSE "plain"]
    /\ pc' = "reattn_ran"
    /\ UNCHANGED X

\* AttentionTransformerEncoder / ReAttentionTransformerEncoder(img_size, patch_size, num_channels, num_heads, transformer_layers, hidden_dim, ...)
\* of model/tf/functions.py and its call on an input
\* of shape (B, num_patches, projection_dim): `pat` keeps the input, `shapes` the
\* statements that ran
TransformerEncoderTf ==
    /\ pc = "start"
    /\ \E ps \in PatchSizes, h \in Heads, l \in 0..MaxDepth, hd \in 1..MaxHidden, oa \in BOOLEAN :
          /\ ImgH % ps = 0
          /\ obj' = tf_TransformerEncoder_init(oa, ImgH, ps, ImgC, None, h, l, hd)
          /\ pat' = IF obj'.err = "none"
                    THEN Learned(<<ImgB, obj'.num_patches, obj'.projection_dim>>)
                    ELSE Unset
          /\ \E res \in {IF obj'.err = "none"
                          THEN tf_TransformerEncoder_call(obj', pat')
                          ELSE [err |-> "unset", env |-> <<>>, trace |-> <<>>]} :
                /\ out' = Returned(res, "encoded_patches")
                /\ shapes' = res.trace
          /\ arg' = [NoArg EXCEPT !.lib = "tf", !.patch_size = ps, !.num_heads = h,
                                  !.num_channels = ImgC, !.projection_dim = None,
                                  !.original_attn = oa, !.transformer_layers = <<l, l>>]
    /\ pc' = "encoder_ran"
    /\ UNCHANGED X

\* AttentionTransformerEncoder / ReAttentionTransformerEncoder(img_size, patch_size, num_channels, num_heads, transformer_layers, hidden_dim, ...)
\* of model/tf/ViT_model.py and its call on an input
\* of shape (B, num_patches, projection_dim): `pat` keeps the input, `shapes` the
\* statements that ran
TransformerEncoderVit ==
    /\ pc = "start"
    /\ \E ps \in PatchSizes, h \in Heads, l \in 0..MaxDepth, hd \in 1..MaxHidden, oa \in BOOLEAN :
          /\ ImgH % ps = 0
          /\ obj' = tf_TransformerEncoder_init(oa, ImgH, ps, ImgC, None, h, l, hd)
          /\ pat' = IF obj'.err = "none"
                    THEN Learned(<<ImgB, obj'.num_patches, obj'.projection_dim>>)
                    ELSE Unset
          /\ \E res \in {IF obj'.err = "none"
                          THEN tf_TransformerEncoder_call(obj', pat')
                          ELSE [err |-> "unset", env |-> <<>>, trace |-> <<>>]} :
                /\ out' = Returned(res, "encoded_patches")
                /\ shapes' = res.trace
          /\ arg' = [NoArg EXCEPT !.lib = "vit", !.patch_size = ps, !.num_heads = h,
                                  !.num_channels = ImgC, !.projection_dim = None,
                                  !.original_attn = oa, !.transformer_layers = <<l, l>>]
    /\ pc' = "encoder_ran"
    /\ UNCHANGED X

\* AttentionTransformerEncoder / ReAttentionTransformerEncoder(img_size, patch_size, num_channels, projection_dim, num_heads, transformer_layers, hidden_dim, ...)
\* of hvit/tf/functions.py and its call on an input
\* of shape (B, num_patches, projection_dim): `pat` keeps the input, `shapes` the
\* statements that ran
TransformerEncoderHvit ==
    /\ pc = "start"
    /\ \E ps \in PatchSizes, h \in Heads, l \in 0..MaxDepth, hd \in 1..MaxHidden, oa \in BOOLEAN, pd \in ProjDims :
          /\ ImgH % ps = 0
          /\ obj' = tf_TransformerEncoder_init(oa, ImgH, ps, ImgC, pd, h, l, hd)
          /\ pat' = IF obj'.err = "none"
                    THEN Learned(<<ImgB, obj'.num_patches, obj'.projection_dim>>)
                    ELSE Unset
          /\ \E res \in {IF obj'.err = "none"
                          THEN tf_TransformerEncoder_call(obj', pat')
                          ELSE [err |-> "unset", env |-> <<>>, trace |-> <<>>]} :
                /\ out' = Returned(res, "encoded_patches")
                /\ shapes' = res.trace
          /\ arg' = [NoArg EXCEPT !.lib = "hvit", !.patch_size = ps, !.num_heads = h,
                                  !.num_channels = ImgC, !.projection_dim = pd,
                                  !.original_attn = oa, !.transformer_layers = <<l, l>>]
    /\ pc' = "encoder_ran"
    /\ UNCHANGED X

\* SkipConnection(img_size, patch_size, num_channels, projection_dim, num_heads, type = type)
\* of hvit/tf/functions.py
SkipConnectionInitHvit ==
    /\ pc = "start"
    /\ ImgH = ImgW
    /\ \E ps \in PatchSizes, pd \in ProjDims, h \in Heads, m \in Modes :
          /\ obj' = hvit_SkipConnection_init(ImgH, ps, ImgC, pd, h, m)
          /\ arg' = [NoArg EXCEPT !.lib = "hvit", !.patch_size = ps, !.num_channels = ImgC,
                                  !.projection_dim = pd, !.num_heads = h, !.mode = m]
    /\ pc' = "skip_built"
    /\ UNCHANGED <<X, pat, out, shapes>>

\* HViT(img_size, patch_size, num_channels, num_heads, transformer_layers, ...,
\* trainable_rs, original_attn) of model/tf/ViT_model.py, with patch sizes that divide img_size
HViTInit ==
    /\ pc = "start"
    /\ ImgH = ImgW
    /\ \E p0 \in PatchSizes, p1 \in PatchSizes, h \in Heads, l0 \in Layers, l1 \in Layers,
          trs \in BOOLEAN, oa \in BOOLEAN :
          /\ ImgH % p0 = 0
          /\ ImgH % p1 = 0
          /\ obj' = vit_HViT_init(ImgH, <<p0, p1>>, ImgC, h, <<l0, l1>>, trs, oa)
          /\ arg' = [NoArg EXCEPT !.lib = "vit", !.patch_sizes = <<p0, p1>>,
                                  !.num_channels = ImgC, !.num_heads = h,
                                  !.transformer_layers = <<l0, l1>>,
                                  !.trainable_rs = trs, !.original_attn = oa]
    /\ pc' = "hvit_built"
    /\ UNCHANGED <<X, pat, out, shapes>>

\* HViT.call, "Patch": encoded_patches = self.DPE(X)
HViTCallDPE ==
    /\ pc = "hvit_built"
    /\ obj.err = "none"
    /\ out' = vit_DeepPatchEncoder_call(obj.DPE, X)
    /\ shapes' = <<Sh(out')>>
    /\ pc' = "hvit_dpe"
    /\ UNCHANGED <<X, pat, arg, obj>>

\* HViT.call, "Transformer Block": encoded_patches = self.TB1(encoded_patches)
HViTCallTB1 ==
    /\ pc = "hvit_dpe"
    /\ Ok(out)
    /\ out' = vit_TransformerEncoder_call(obj.TB1, out)
    /\ shapes' = Append(shapes, Sh(out'))
    /\ pc' = "hvit_tb1"
    /\ UNCHANGED <<X, pat, arg, obj>>

\* HViT.call, "Resampling": encoded_patches = self.RS(encoded_patches)
HViTCallRS ==
    /\ pc = "hvit_tb1"
    /\ Ok(out)
    /\ out' = vit_Resampling_call(obj.RS, out)
    /\ shapes' = Append(shapes, Sh(out'))
    /\ pc' = "hvit_rs"
    /\ UNCHANGED <<X, pat, arg, obj>>

\* HViT.call, "Transformer Block": encoded_patches = self.TB2(encoded_patches)
HViTCallTB2 ==
    /\ pc = "hvit_rs"
    /\ Ok(out)
    /\ out' = vit_TransformerEncoder_call(obj.TB2, out)
    /\ shapes' = Append(shapes, Sh(out'))
    /\ pc' = "hvit_tb2"
    /\ UNCHANGED <<X, pat, arg, obj>>

\* HViT.call, "Classify outputs": logits = self.MLP(encoded_patches)
HViTCallMLP ==
    /\ pc = "hvit_tb2"
    /\ Ok(out)
    /\ out' = vit_HViT_MLP(obj, out)
    /\ shapes' = Append(shapes, Sh(out'))
    /\ pc' = "hvit_logits"
    /\ UNCHANGED <<X, pat, arg, obj>>

\* ------------------------------------------------------------ claims
Divides(ps) == ImgH % ps = 0 /\ ImgW % ps = 0

\* the round trip was run with the image's own channel count throughout
RoundTripDone(libs) ==
    /\ pc = "done"
    /\ arg.lib \in libs
    /\ Divides(arg.patch_size)
    /\ arg.num_channels = ImgC
    /\ arg.lib = "hvit" => arg.uf_channels = ImgC

RestoredTf ==
    /\ Ok(out)
    /\ out.shape = <<ImgB, 1, ImgH, ImgW, ImgC>>
    /\ \A b \in 0..(ImgB - 1), y \in 0..(ImgH - 1), x \in 0..(ImgW - 1), c \in 0..(ImgC - 1) :
          At(out, <<b, 0, y, x, c>>) = At(X, <<b, y, x, c>>)

RestoredTorch ==
    /\ Ok(out)
    /\ out.shape = <<ImgB, 1, ImgC, ImgH, ImgW>>
    /\ \A b \in 0..(ImgB - 1), y \in 0..(ImgH - 1), x \in 0..(ImgW - 1), c \in 0..(ImgC - 1) :
          At(out, <<b, 0, c, y, x>>) = At(X, <<b, y, x, c>>)

\* C1: in model/tf/functions.py and hvit/tf/functions.py, un-patching the patches of
\* any image whose height and width are multiples of patch_size gives the image back,
\* entry for entry, in shape (B, 1, H, W, C).
C1_UnpatchInvertsPatches == RoundTripDone({"tf", "hvit"}) => RestoredTf

\* the same round trip on square images only
C1_SquareRoundTrip == (RoundTripDone({"tf", "hvit"}) /\ ImgH = ImgW) => RestoredTf

\* C2: in the PyTorch module, unpatch(patch(X, patch_size), C) gives the image back,
\* entry for entry, in shape (B, 1, C, H, W), for any H and W that patch_size divides.
C2_TorchUnpatchInvertsPatch == RoundTripDone({"torch"}) => RestoredTorch

\* the same round trip on square images only
C2_SquareRoundTrip == (RoundTripDone({"torch"}) /\ ImgH = ImgW) => RestoredTorch

PatchRan(libs) == pc \in {"patched", "unflattened", "done"} /\ arg.lib \in libs

\* C4: patch / patches of model/tf/ViT_model.py, model/pytorch/ViT_model.py and
\* model/tf/functions.py fail an assertion and return no tensor exactly when the
\* image height or width is not a multiple of patch_size; otherwise they return
\* the patch tensor.
C4_AssertIffNotMultiple ==
    PatchRan({"tf", "vit", "torch"}) =>
        /\ pat.err = "assert" <=> ~Divides(arg.patch_size)
        /\ Ok(pat) <=> Divides(arg.patch_size)

C4_Witness ==
    /\ PatchRan({"torch"})
    /\ pat.err = "assert"
    /\ ImgH % arg.patch_size = 0
    /\ ImgW % arg.patch_size # 0

\* C5: a PatchEncoder of hvit/tf/functions.py whose patch_size does not divide
\* img_size, called on a (B, img_size, img_size, num_channels) image, ends in an
\* assertion failure; so does the Patches layer of model/tf/ViT_model.py.
C5_EncoderAssertsOnBadPatchSize ==
    /\ (pc = "encoded" /\ arg.lib = "hvit" /\ ImgH % arg.patch_size # 0) => out.err = "assert"
    /\ (pc = "patches_layer" /\ ImgH = ImgW /\ ImgH % arg.patch_size # 0) => out.err = "assert"

\* the channel axis of a rank-5 patch tensor: the last axis in TensorFlow, axis 2 in PyTorch
ChannelAxisLen(lib, t) == IF lib = "torch" THEN t.shape[3] ELSE t.shape[5]

\* C7: unpatch on a rank-5 patch tensor fails its assertion, returning no image,
\* exactly when the tensor's channel axis differs from the num_channels argument.
C7_UnpatchChannelAssert ==
    (pc = "done" /\ Rank(pat) = 5) =>
        (out.err = "assert" <=> ChannelAxisLen(arg.lib, pat) # arg.num_channels)

C7_Witness ==
    /\ pc = "done"
    /\ arg.lib = "hvit"
    /\ Rank(pat) = 5
    /\ ChannelAxisLen(arg.lib, pat) # arg.num_channels
    /\ out.err = "assert"

\* C9: PatchEncoder of hvit/tf/functions.py, img_size a multiple of patch_size:
\* call returns shape (B, (img_size // patch_size)^2, D), D the given
\* projection_dim or num_channels * patch_size^2 when it is None, and the
\* position-embedding table has (img_size // patch_size)^2 rows.
C9_HvitPatchEncoderShape ==
    (pc = "encoded" /\ arg.lib = "hvit" /\ ImgH % arg.patch_size = 0) =>
        LET g == ImgH \div arg.patch_size
            D == IF arg.projection_dim # None THEN arg.projection_dim
                 ELSE ImgC * arg.patch_size * arg.patch_size
        IN  /\ Ok(out)
            /\ out.shape = <<ImgB, g * g, D>>
            /\ obj.position_embedding.input_dim = g * g

C9_Witness ==
    /\ pc = "encoded"
    /\ arg.lib = "hvit"
    /\ arg.patch_size = 2
    /\ ImgH = 4
    /\ arg.projection_dim = None
    /\ out.shape = <<ImgB, 4, 4 * ImgC>>

\* C10: PatchEncoder of model/tf/functions.py, img_size a multiple of patch_size:
\* call returns shape (B, (img_size // patch_size)^2, num_channels * patch_size^2).
C10_TfPatchEncoderShape ==
    (pc = "encoded" /\ arg.lib = "tf" /\ ImgH % arg.patch_size = 0) =>
        LET g == ImgH \div arg.patch_size
        IN  /\ Ok(out)
            /\ out.shape = <<ImgB, g * g, ImgC * arg.patch_size * arg.patch_size>>

\* C6: Resampling of hvit/tf/functions.py built with resampling_type = 'conv' fails
\* an assertion whenever projection_dim is given and is not num_channels times a
\* perfect square, and accepts None and every num_channels * s^2. (Stated for patch
\* sizes that divide img_size.)
C6_ConvRequiresSquarePerChannel ==
    (/\ pc = "resampling_built"
     /\ arg.mode = "conv"
     /\ ImgH % arg.patch_sizes[1] = 0
     /\ ImgH % arg.patch_sizes[2] = 0) =>
        LET pd == arg.projection_dim
            fits == pd = None \/ \E k \in 0..pd : pd = arg.num_channels * k * k
        IN  /\ ~fits => obj.err = "assert"
            /\ fits => obj.err # "assert"

HViTStages == {"hvit_built", "hvit_dpe", "hvit_tb1", "hvit_rs", "hvit_tb2", "hvit_logits"}

\* the shape the claim gives for the k-th result of HViT.call
HViTExpected(k) ==
    LET N == [i \in 1..2 |-> (ImgH \div arg.patch_sizes[i]) * (ImgH \div arg.patch_sizes[i])]
        P == [i \in 1..2 |-> ImgC * arg.patch_sizes[i] * arg.patch_sizes[i]]
    IN  CASE k \in {1, 2} -> <<ImgB, N[1], P[1]>>
          [] k \in {3, 4} -> <<ImgB, N[2], P[2]>>
          [] k = 5 -> <<ImgB, num_classes>>

\* C3: for every HViT configuration whose two patch sizes divide img_size
\* (num_channels >= 1, trainable_rs and original_attn either value) and input
\* (B, img_size, img_size, num_channels), the model is built and HViT.call gives
\* (B, num_patches[0], projection_dim[0]) after DeepPatchEncoder and the first
\* transformer block, (B, num_patches[1], projection_dim[1]) after Resampling and the
\* second block, and logits of shape (B, num_classes).
C3_HViTShapes ==
    pc \in HViTStages =>
        /\ obj.err = "none"
        /\ \A k \in 1..Len(shapes) :
              shapes[k].err = "none" /\ shapes[k].shape = HViTExpected(k)

\* a Resampling of hvit/tf/functions.py was built with the given mode, with patch
\* sizes that divide img_size, and has reached one of the given stages
ResamplingAt(stages, modes) ==
    /\ pc \in stages
    /\ arg.lib = "hvit"
    /\ arg.mode \in modes
    /\ obj.err = "none"
    /\ ImgH % arg.patch_sizes[1] = 0
    /\ ImgH % arg.patch_sizes[2] = 0

\* the result of Resampling.call has the shape (B, num_patches[1], projection_dim[1])
ResampledShape ==
    /\ Ok(out)
    /\ out.shape = <<ImgB, obj.num_patches[2], obj.projection_dim[2]>>

\* C11: Resampling of hvit/tf/functions.py with resampling_type = 'conv', built with
\* patch_size[0] < patch_size[1] (both dividing img_size): call on
\* (B, num_patches[0], projection_dim[0]) returns (B, num_patches[1], projection_dim[1]).
C11_ConvResamplingShape ==
    (ResamplingAt({"resampled"}, {"conv"}) /\ arg.patch_sizes[1] < arg.patch_sizes[2])
        => ResampledShape

\* the feature maps Resampling.call hands on after its max-pool step
MaxPooled ==
    MaxPool2D(obj.maxpool.strides,
              hvit_Resampling_maps(obj, Learned(<<ImgB, obj.num_patches[1], obj.projection_dim[1]>>)))

\* C12: Resampling of hvit/tf/functions.py with resampling_type = 'max', built with
\* patch_size[0] < patch_size[1]: call on (B, num_patches[0], projection_dim) returns
\* (B, num_patches[1], projection_dim), and the max-pool step leaves
\* num_patches[1] * num_channels feature maps.
C12_MaxResamplingShape ==
    (ResamplingAt({"resampled"}, {"max"}) /\ arg.patch_sizes[1] < arg.patch_sizes[2])
        => /\ ResampledShape
           /\ Ok(MaxPooled)
           /\ MaxPooled.shape[4] = obj.num_patches[2] * obj.num_channels

\* C13: Resampling of hvit/tf/functions.py with resampling_type = 'standard', with or
\* without an explicit projection_dim: call on (B, num_patches[0], projection_dim[0])
\* returns (B, num_patches[1], projection_dim[1]).
C13_StandardResamplingShape ==
    ResamplingAt({"resampled"}, {"standard"}) => ResampledShape

\* C14: Resampling of hvit/tf/functions.py with resampling_type 'conv' or 'max' and
\* patch_size[0] > patch_size[1]: pool_size and the stride pool_size // 2 are at
\* least 1, and call returns (B, num_patches[1], projection_dim[1]).
C14_ResamplingToFinerGrid ==
    (/\ ResamplingAt({"resampling_built", "resampled"}, {"conv", "max"})
     /\ arg.patch_sizes[1] > arg.patch_sizes[2])
        => /\ obj.pool_size >= 1
           /\ obj.pool_size \div 2 >= 1
           /\ pc = "resampled" => ResampledShape

\* C15: trainable Resampling of model/tf/functions.py and model/tf/ViT_model.py, for
\* any two patch sizes dividing img_size, in either direction: call on
\* (B, num_patches[0], projection_dim[0]) returns (B, num_patches[1], projection_dim[1]),
\* projection_dim[i] = num_channels * patch_size[i]^2.
C15_TrainableResamplingShape ==
    (pc = "rs_called" /\ arg.trainable_rs /\ pat.shape = <<ImgB, obj.num_patches[1], obj.projection_dim[1]>>) =>
        /\ Ok(out)
        /\ out.shape = <<ImgB, (ImgH \div arg.patch_sizes[2]) * (ImgH \div arg.patch_sizes[2]),
                         ImgC * arg.patch_sizes[2] * arg.patch_sizes[2]>>

\* C16: non-trainable resampling of model/tf/ViT_model.py, for every num_channels:
\* on the (B, num_patches[0], projection_dim[0]) encoding of an image it returns
\* (B, num_patches[1], projection_dim[1]) whose row k is block k (row-major, of side
\* patch_size[1], all channels) of that image, so every entry of the input occurs
\* exactly once in the output.
C16_ResamplingRepatches ==
    (pc = "rs_called" /\ arg.lib = "vit" /\ ~arg.trainable_rs) =>
        LET p1 == arg.patch_sizes[2]
            g1 == ImgH \div p1
        IN  /\ Ok(out)
            /\ out.shape = <<ImgB, g1 * g1, ImgC * p1 * p1>>
            /\ \A b \in 0..(ImgB - 1), k \in 0..(g1 * g1 - 1), i \in 0..(p1 - 1),
                  j \in 0..(p1 - 1), c \in 0..(ImgC - 1) :
                  At(out, <<b, k, (i * p1 + j) * ImgC + c>>)
                      = At(X, <<b, (k \div g1) * p1 + i, (k % g1) * p1 + j, c>>)
            /\ Len(out.data) = Len(pat.data)
            /\ {out.data[n] : n \in 1..Len(out.data)} = {pat.data[n] : n \in 1..Len(pat.data)}

Monotone(ps) ==
    \/ \A i \in 1..(Len(ps) - 1) : ps[i] >= ps[i + 1]
    \/ \A i \in 1..(Len(ps) - 1) : ps[i] <= ps[i + 1]

\* C17: DeepPatchEncoder of model/tf/functions.py, built with a monotone list of
\* patch sizes that divide img_size: every kernel size and stride of its convolutions
\* is at least 1, the positional tensor of level i has the shape
\* (num_channels, patch_size[i+1], patch_size[i+1], num_patches[i+1]) of the encoding
\* it is added to, and call on X returns (B, num_patches[0], projection_dim[0]).
C17_DeepPatchEncoderShapes ==
    (pc = "dpe_called" /\ Monotone(arg.patch_sizes)) =>
        LET ps == arg.patch_sizes
            N == [i \in 1..Len(ps) |-> (ImgH \div ps[i]) * (ImgH \div ps[i])]
        IN  /\ obj.err = "none"
            /\ \A i \in 1..(Len(ps) - 1) :
                  /\ obj.seqCNN[i].kernel_size >= 1
                  /\ obj.seqCNN[i].strides >= 1
                  /\ shapes[i] = [err |-> "none", shape |-> <<1, ImgC, ps[i + 1], ps[i + 1], N[i + 1]>>]
            /\ Ok(out)
            /\ out.shape = <<ImgB, N[1], ImgC * ps[1] * ps[1]>>

\* patch of model/pytorch/ViT_model.py has run on a square image that patch_size
\* divides: the image has a g x g grid of patches
TorchGridPatched ==
    /\ pc = "patched"
    /\ arg.lib = "torch"
    /\ ImgH = ImgW
    /\ ImgH % arg.patch_size = 0

C18_ReAttentionShapes ==
    pc = "reattn_called" =>
        /\ obj.err = "none"
        /\ Ok(out)
        /\ out.shape = <<ImgB, ImgH, arg.projection_dim>>
        /\ shapes = <<[err |-> "none", shape |-> <<ImgB, arg.num_heads, ImgH, ImgH>>]>>
        /\ Ok(pat)
        /\ pat.shape = <<ImgB, arg.num_heads, ImgH, arg.projection_dim \div arg.num_heads>>
        /\ arg.num_heads * (arg.projection_dim \div arg.num_heads) = arg.projection_dim

\* what a layer of a feed-forward block does, whatever its framework calls it
Operation(l) ==
    IF l.op \in {"Dense", "Linear"} THEN "linear"
    ELSE IF l.op \in {"gelu", "GELU"} THEN "gelu"
    ELSE "dropout"

Operations(layers) == [i \in 1..Len(layers) |-> Operation(layers[i])]

\* C20: the FeedForward of model/tf/functions.py and of hvit/tf/functions.py applies
\* the operations of the FeedForward of model/pytorch/ViT_model.py built with the same
\* arguments: as many linear maps, GELUs and dropouts, in the same order, and a
\* result of the same shape.
C20_FeedForwardSameOperations ==
    (pc = "ff_called" /\ arg.lib \in {"tf", "hvit"}) =>
        /\ Operations(shapes) = Operations(torch_FeedForward_init(obj.D2.units, obj.D1.units).net)
        /\ Sh(out) = Sh(torch_FeedForward_forward(torch_FeedForward_init(obj.D2.units, obj.D1.units),
                                                  Learned(<<ImgB, ImgH, obj.D2.units>>)))

\* a ReAttention was built with arguments it can split: num_heads divides dim and dim
\* is num_channels times a square; it was then called on (B, N, dim)
ReAttentionRan(libs, modes) ==
    /\ pc = "reattn_ran"
    /\ arg.lib \in libs
    /\ arg.mode \in modes
    /\ arg.projection_dim % arg.num_heads = 0
    /\ IsSquare(arg.projection_dim \div arg.num_channels)
    /\ arg.projection_dim % arg.num_channels = 0

\* the places in `shapes` of the statements that ran a given operation
Ran(ops) == {i \in 1..Len(shapes) : shapes[i].op \in ops}

\* C21: in the PyTorch and in the TensorFlow ReAttention, entry (b, h, i, j) of the
\* result of the re-attention convolution is a combination of the entries (b, h', i, j)
\* of the attention maps over all heads h': the convolution mixes heads, not positions.
C21_TransformMixesHeads ==
    ReAttentionRan({"tf", "hvit", "torch"}, {"transform"}) =>
        /\ Ran({"tf.reatten_matrix", "torch.reatten_matrix"}) = {7}
        /\ \A b \in 0..(ImgB - 1), h \in 0..(arg.num_heads - 1), i \in 0..(ImgH - 1), j \in 0..(ImgH - 1) :
              (IF shapes[7].op = "torch.reatten_matrix"
               THEN torch_Conv2d_reads(shapes[6].shape, <<b, h, i, j>>)
               ELSE Conv2D_reads(shapes[6].shape, <<b, h, i, j>>))
                  = {<<b, g, i, j>> : g \in 0..(arg.num_heads - 1)}

\* the step of the attention computation that an operation of a body is
Step(op) ==
    IF op \in {"tf.create_queries", "torch.queries"} THEN "query/key/value"
    ELSE IF op = "matmul_scale" THEN "scaled product"
    ELSE IF op \in {"tf.reatten_matrix", "torch.reatten_matrix"} THEN "convolution"
    ELSE IF op \in {"tf.var_norm", "torch.var_norm"} THEN "normalisation"
    ELSE IF op = "reatten_scale" THEN "scale"
    ELSE IF op \in {"tf.matmul_v", "torch.matmul_v"} THEN "product with values"
    ELSE IF op \in {"tf.proj", "torch.proj"} THEN "projection"
    ELSE op

\* the steps that ran, in order; the assignment of attn_next is no step of its own
Steps == [i \in 1..Len(SelectSeq(shapes, LAMBDA s : s.op # "assign")) |->
             Step(SelectSeq(shapes, LAMBDA s : s.op # "assign")[i].op)]

\* the attention tensor returned is the one multiplied with the values: attn_next is
\* assigned from the name the product reads, just before the product
ReturnsAttentionUsed ==
    \E i \in Ran({"assign"}) :
        /\ shapes[i].out = "attn_next"
        /\ i + 1 \in Ran({"tf.matmul_v", "torch.matmul_v"})
        /\ shapes[i + 1].in[1] = shapes[i].in[1]
        /\ Ok(pat)

\* C22: every ReAttention call runs query/key/value creation, the scaled product,
\* softmax, attention dropout, then only under apply_transform the convolution, its
\* normalisation and scale, then the product with the values, the projection and its
\* dropout, and returns the attention tensor that was multiplied with the values.
C22_ReAttentionStepOrder ==
    ReAttentionRan({"tf", "hvit", "torch"}, {"transform", "plain"}) =>
        /\ Steps = <<"query/key/value", "query/key/value", "query/key/value",
                     "scaled product", "softmax", "attn_drop">>
                   \o (IF arg.mode = "transform"
                       THEN <<"convolution", "normalisation", "scale">> ELSE <<>>)
                   \o <<"product with values", "projection", "proj_drop">>
        /\ ReturnsAttentionUsed

\* C27: ReAttention with apply_transform = False completes without error in every
\* implementation, runs neither the convolution nor the normalisation, multiplies the
\* dropped-out softmax attention with the values and returns that attention.
C27_PlainAttention ==
    ReAttentionRan({"tf", "hvit", "torch"}, {"plain"}) =>
        /\ Ok(out)
        /\ out.shape = <<ImgB, ImgH, arg.projection_dim>>
        /\ Ran({"tf.reatten_matrix", "torch.reatten_matrix", "tf.var_norm", "torch.var_norm"}) = {}
        /\ ReturnsAttentionUsed
        /\ \E i \in Ran({"tf.matmul_v", "torch.matmul_v"}) :
              \E d \in Ran({"attn_drop"}) :
                  /\ shapes[d].out = shapes[i].in[1]
                  /\ \A n \in (d + 1)..(i - 1) : shapes[n].out # shapes[i].in[1]
        /\ pat.shape = <<ImgB, arg.num_heads, ImgH, ImgH>>

\* pass i of an encoder's loop as `shapes` has it: the attention of the pass on the
\* pass's input, the sum with that input, LN1 of the pass, the feed-forward of the
\* pass, the sum with the output of LN1, LN2 of the pass
PassRan(i) ==
    /\ shapes[6 * i + 1].layer = <<IF arg.original_attn THEN "Attn" ELSE "ReAttn", i>>
    /\ \A n \in 1..Len(shapes[6 * i + 1].in) : shapes[6 * i + 1].in[n] = "encoded_patches"
    /\ shapes[6 * i + 1].out = "encoded_patch_attn"
    /\ shapes[6 * i + 2].op = "Add"
    /\ shapes[6 * i + 2].in = <<"encoded_patch_attn", "encoded_patches">>
    /\ shapes[6 * i + 2].out = "encoded_patches"
    /\ shapes[6 * i + 3].layer = <<"LN1", i>>
    /\ shapes[6 * i + 3].in = <<"encoded_patches">>
    /\ shapes[6 * i + 3].out = "encoded_patches"
    /\ shapes[6 * i + 4].layer = <<"FF", i>>
    /\ shapes[6 * i + 4].in = <<"encoded_patches">>
    /\ shapes[6 * i + 4].out = "encoded_patch_FF"
    /\ shapes[6 * i + 5].op = "Add"
    /\ shapes[6 * i + 5].in = <<"encoded_patch_FF", "encoded_patches">>
    /\ shapes[6 * i + 5].out = "encoded_patches"
    /\ shapes[6 * i + 6].layer = <<"LN2", i>>
    /\ shapes[6 * i + 6].in = <<"encoded_patches">>
    /\ shapes[6 * i + 6].out = "encoded_patches"

\* C23: each TensorFlow transformer encoder runs exactly transformer_layers passes;
\* pass i applies, in order and with the i-th instances only, the attention, the sum
\* with the pass's input, LN1, the feed-forward, the sum with the output of LN1, and
\* LN2; no instance is used twice, the output has the shape of the input, and with
\* transformer_layers = 0 the input is returned as it is.
C23_EncoderPasses ==
    pc = "encoder_ran" =>
        /\ obj.err = "none"
        /\ Ok(out)
        /\ out.shape = pat.shape
        /\ Len(shapes) = 6 * arg.transformer_layers[1]
        /\ \A i \in 0..(arg.transformer_layers[1] - 1) : PassRan(i)
        /\ \A a \in 1..Len(shapes), b \in 1..Len(shapes) :
              a # b => shapes[a].layer # shapes[b].layer
        /\ arg.transformer_layers[1] = 0 => out = pat

\* C28: unflatten on an input of shape (B, n, p) returns B batches of n patches of
\* s x s entries and num_channels channels with s * s * num_channels = p, and fails
\* when p is not num_channels times a perfect square
C28_UnflattenKeepsBatch ==
    pc = "seq_unflattened" =>
        IF pat.shape[3] % arg.uf_channels = 0 /\ IsSquare(pat.shape[3] \div arg.uf_channels)
        THEN /\ Ok(out)
             /\ Rank(out) = 5
             /\ out.shape[1] = pat.shape[1]
             /\ out.shape[2] = pat.shape[2]
             /\ Prod(SubSeq(out.shape, 3, 5)) = pat.shape[3]
             /\ out.shape[IF arg.lib = "torch" THEN 3 ELSE 5] = arg.uf_channels
             /\ out.shape[4] = out.shape[IF arg.lib = "torch" THEN 5 ELSE 3]
        ELSE ~Ok(out)

\* unpatch ran on a flat sequence of shape (B, n, num_channels * s * s), n a perfect square
FlatUnpatched ==
    /\ pc = "seq_unpatched"
    /\ IsSquare(pat.shape[2])
    /\ pat.shape[3] % arg.num_channels = 0
    /\ IsSquare(pat.shape[3] \div arg.num_channels)

\* C29: unpatch of a flat sequence of shape (B, n, num_channels * h * w), n a perfect
\* square, is the image unpatch restores from the unflattened sequence, of batch size B
\* and of side h * sqrt(n) by w * sqrt(n)
C29_UnpatchEitherForm ==
    FlatUnpatched =>
        /\ Ok(out)
        /\ out = Unpatch(arg.lib, Unflatten(arg.lib, pat, arg.num_channels), arg.num_channels)
        /\ out.shape[1] = pat.shape[1]
        /\ Prod(out.shape) = Prod(pat.shape)
        /\ out.shape[IF arg.lib = "torch" THEN 4 ELSE 3]
              = Isqrt(pat.shape[3] \div arg.num_channels) * Isqrt(pat.shape[2])
        /\ out.shape[IF arg.lib = "torch" THEN 5 ELSE 4]
              = Isqrt(pat.shape[3] \div arg.num_channels) * Isqrt(pat.shape[2])

\* C30: the function resampling, from patch size a to b on a sequence of shape
\* (B, (img / a)^2, num_channels * a^2), returns shape (B, (img / b)^2, num_channels * b^2),
\* and resampling that result from b to a returns the original sequence entry for entry
C30_ResamplingInvertible ==
    /\ pc = "rs_there" =>
          (Ok(out) /\ out.shape = <<ImgB, (ImgH \div arg.patch_sizes[2]) * (ImgH \div arg.patch_sizes[2]),
                                     ImgC * arg.patch_sizes[2] * arg.patch_sizes[2]>>)
    /\ pc = "rs_back" => (Ok(out) /\ out = pat)

\* a sequence of 2 images of 4 x 4 entries and 2 channels, resampled from one patch of
\* 4 x 4 to four patches of 2 x 2 and back
C30_Witness ==
    /\ pc = "rs_back"
    /\ arg.patch_sizes = <<4, 2>>
    /\ pat.shape = <<2, 1, 32>>
    /\ shapes = <<(<<2, 4, 8>>)>>
    /\ \A i, j \in 1..Len(pat.data) : pat.data[i] = pat.data[j] => i = j
    /\ out = pat

\* ViT_model of model/pytorch/ViT_model.py was given arguments and its two assertions
\* on patch_size and depth let them pass
TorchModelAdmitted == pc = "torch_model_built" /\ obj.line \notin {238, 239}

\* C24: the PyTorch ViT_model answers a patch_size that is not a multiple of 2^depth,
\* or whose quotient by 2^depth is below 4, with an assertion failure, for every value
\* of patch_size its signature admits, and its two checks raise no other kind of error
C24_DepthAssertions ==
    pc = "torch_model_built" =>
        /\ (arg.mode = "int" /\ arg.patch_size % Pow(2, arg.transformer_layers[1]) # 0)
              => (obj.err = "assert" /\ obj.line = 238)
        /\ (arg.mode = "int" /\ arg.patch_size \div Pow(2, arg.transformer_layers[1]) < 4)
              => (obj.err = "assert" /\ obj.line \in {238, 239})
        /\ obj.line \in {238, 239} => obj.err = "assert"

\* C25: the PyTorch ViT_model builds encoder j for num_patches * 4^(j div depth_te)
\* tokens of dimension projection_dim // 4^(j div depth_te), tokens times dimension is
\* the in_features of the first head layer at every level, and forward runs with its
\* down-sampling steps to the end
C25_EncodersInStep ==
    TorchModelAdmitted =>
        /\ obj.err = "none"
        /\ Len(obj.Encoders) = arg.transformer_layers[1] * arg.transformer_layers[2]
        /\ \A j \in 1..Len(obj.Encoders) :
              /\ obj.Encoders[j].num_patches
                    = obj.num_patches * Pow(4, (j - 1) \div arg.transformer_layers[2])
              /\ obj.Encoders[j].num_patches * obj.Encoders[j].projection_dim
                    = obj.linear_list[1]
        /\ obj.linear_list[1] = obj.num_channels * obj.num_patches * obj.patch_size * obj.patch_size
        /\ out.err = "none"

\* C26: for arguments that pass the depth assertions, constructing the PyTorch ViT_model
\* or PatchEncoder and running its forward reads no name that was not defined before,
\* and forward returns a tensor
C26_NoUndefinedName ==
    (TorchModelAdmitted \/ pc = "torch_encoder_built") => (obj.err = "none" /\ out.err = "none")

\* the values of patch_size given to ViT_model: ints, and lists of two ints as the
\* annotation and the default of the parameter have them
TorchPatchSizes ==
    {IntValue(n) : n \in 1..MaxTorchPatch} \cup {ListValue(<<16, 8>>), ListValue(<<8, 16>>)}

\* ViT_model(depth, depth_te, linear_list, img_size, patch_size, num_channels) of
\* model/pytorch/ViT_model.py and, when it was constructed, its forward on X
ViTModelTorch ==
    /\ pc = "start"
    /\ \E depth \in 0..MaxDepth, depth_te \in 1..MaxDepth, patch_size \in TorchPatchSizes,
          img_size \in {MaxTorchPatch, 2 * MaxTorchPatch}, linear_list \in {<<>>, <<2>>} :
          /\ obj' = torch_ViT_model_init(depth, depth_te, linear_list, img_size, patch_size, ImgC)
          /\ out' = IF obj'.err # "none" THEN Unset
                    ELSE torch_forward_value(
                            torch_forward(obj', torch_ViT_model_forward_body,
                                          {"always"} \cup (IF depth * depth_te > 0
                                                           THEN {"encoders"} ELSE {})),
                            <<ImgB, obj'.linear_list[Len(obj'.linear_list)]>>)
          /\ arg' = [NoArg EXCEPT !.lib = "torch", !.mode = patch_size.type,
                                  !.patch_size = patch_size.int,
                                  !.patch_sizes = IF patch_size.type = "list"
                                                  THEN patch_size.list ELSE <<0, 0>>,
                                  !.num_channels = ImgC,
                                  !.transformer_layers = <<depth, depth_te>>]
    /\ pc' = "torch_model_built"
    /\ UNCHANGED <<X, pat, shapes>>

\* PatchEncoder(img_size, patch_size, num_channels) of model/pytorch/ViT_model.py and,
\* when it was constructed, its forward on X
PatchEncoderTorch ==
    /\ pc = "start"
    /\ \E a \in PatchSizes, b \in PatchSizes :
          /\ ImgH % a = 0
          /\ ImgH % b = 0
          /\ obj' = torch_PatchEncoder_init(ImgH, <<a, b>>, ImgC)
          /\ out' = IF obj'.err # "none" THEN Unset
                    ELSE torch_forward_value(
                            torch_forward(obj', torch_PatchEncoder_forward_body,
                                          {"always"} \cup (IF a > b THEN {"down"} ELSE {})),
                            <<ImgB, (ImgH \div a) * (ImgH \div a), ImgC * a * a>>)
          /\ arg' = [NoArg EXCEPT !.lib = "torch", !.mode = "list", !.patch_sizes = <<a, b>>,
                                  !.num_channels = ImgC]
    /\ pc' = "torch_encoder_built"
    /\ UNCHANGED <<X, pat, shapes>>

Next ==
    \/ PatchesTf
    \/ PatchVit
    \/ PatchesHvit
    \/ PatchTorch
    \/ UnflattenHvit
    \/ UnpatchStep
    \/ UnflattenSequence
    \/ UnpatchSequence
    \/ ResamplingThere
    \/ ResamplingBack
    \/ PatchesLayerVit
    \/ PatchEncoderTf
    \/ PatchEncoderHvit
    \/ DeepPatchEncoderTf
    \/ ResamplingTf
    \/ ResamplingVit
    \/ ResamplingInitHvit
    \/ ResamplingCallHvit
    \/ ReAttentionTf
    \/ ReAttentionVit
    \/ ReAttentionHvit
    \/ FeedForwardTf
    \/ FeedForwardHvit
    \/ FeedForwardTorch
    \/ ReAttentionCallTf
    \/ ReAttentionCallHvit
    \/ ReAttentionCallTorch
    \/ TransformerEncoderTf
    \/ TransformerEncoderVit
    \/ TransformerEncoderHvit
    \/ ViTModelTorch
    \/ PatchEncoderTorch
    \/ SkipConnectionInitHvit
    \/ HViTInit
    \/ HViTCallDPE
    \/ HViTCallTB1
    \/ HViTCallRS
    \/ HViTCallTB2
    \/ HViTCallMLP

Spec == Init /\ [][Next]_vars

\* the patch functions and their inverses alone
NextPatch ==
    \/ PatchesTf
    \/ PatchVit
    \/ PatchesHvit
    \/ PatchTorch
    \/ UnflattenHvit
    \/ UnpatchStep

SpecPatch == Init /\ [][NextPatch]_vars

\* the patch-encoding layers alone
NextEncoder ==
    \/ PatchesLayerVit
    \/ PatchEncoderTf
    \/ PatchEncoderHvit

SpecEncoder == Init /\ [][NextEncoder]_vars

\* the constructors of hvit/tf/functions.py alone
NextConstructor ==
    \/ ResamplingInitHvit
    \/ SkipConnectionInitHvit

SpecConstructor == Init /\ [][NextConstructor]_vars

\* the Resampling and DeepPatchEncoder layers of model/tf/functions.py and
\* model/tf/ViT_model.py alone
NextTfResampling ==
    \/ DeepPatchEncoderTf
    \/ ResamplingTf
    \/ ResamplingVit

SpecTfResampling == Init /\ [][NextTfResampling]_vars

\* Resampling of hvit/tf/functions.py alone: its construction and one call
NextResampling ==
    \/ ResamplingInitHvit
    \/ ResamplingCallHvit

SpecResampling == Init /\ [][NextResampling]_vars

\* the ReAttention layers of the three TensorFlow modules alone
NextAttention ==
    \/ ReAttentionTf
    \/ ReAttentionVit
    \/ ReAttentionHvit

SpecAttention == Init /\ [][NextAttention]_vars

\* the FeedForward blocks of the TensorFlow and PyTorch modules alone
NextFeedForward ==
    \/ FeedForwardTf
    \/ FeedForwardHvit
    \/ FeedForwardTorch

SpecFeedForward == Init /\ [][NextFeedForward]_vars

\* one call of ReAttention, statement by statement, in the TensorFlow and PyTorch modules
NextReAttentionCall ==
    \/ ReAttentionCallTf
    \/ ReAttentionCallHvit
    \/ ReAttentionCallTorch

SpecReAttentionCall == Init /\ [][NextReAttentionCall]_vars

\* unflatten, unpatch and resampling on flat patch sequences
NextSequence ==
    \/ UnflattenSequence
    \/ UnpatchSequence
    \/ ResamplingThere
    \/ ResamplingBack

SpecSequence == Init /\ [][NextSequence]_vars

\* the model and the patch encoder of model/pytorch/ViT_model.py alone
NextTorchModel ==
    \/ ViTModelTorch
    \/ PatchEncoderTorch

SpecTorchModel == Init /\ [][NextTorchModel]_vars

\* the transformer encoders of the TensorFlow modules alone
NextTransformerEncoder ==
    \/ TransformerEncoderTf
    \/ TransformerEncoderVit
    \/ TransformerEncoderHvit

SpecTransformerEncoder == Init /\ [][NextTransformerEncoder]_vars

\* the HViT model alone: its construction and the stages of one forward pass
NextHViT ==
    \/ HViTInit
    \/ HViTCallDPE
    \/ HViTCallTB1
    \/ HViTCallRS
    \/ HViTCallTB2
    \/ HViTCallMLP

SpecHViT == Init /\ [][NextHViT]_vars
====
